---- MODULE Spec2Model ----
(***************************************************************************)
(* qlink: the multi-part UR transport of the Keystone protocol layer.      *)
(*                                                                         *)
(* A UR text is  head \o letters(body) : `head' is the literal text up to  *)
(* the bytewords body (scheme, type segment, index segment, separators),   *)
(* kept as a real string so that the prefix test, the split on '/' and the *)
(* index parsing are computed character by character; `body' is the        *)
(* bytewords-encoded byte string of the byte-level UR capability, kept as  *)
(* the bytes it carries together with the checksum it was written with.    *)
(***************************************************************************)
EXTENDS Integers, Sequences, FiniteSets, TLC

\* ------------------------------------------------------------------ bounds
MaxDataLen == 2          \* longest payload, in bytes
MaxCalls   == 5          \* most next_part() calls counted since construction / reset
MaxReceived == 3         \* most distinct fragment texts one decoder remembers
MaxIndex   == 3          \* largest index given to part_at()

Byte == {0, 1}
Types == {"bytes", "xrp-tx"}
MaxFragLens == {1, 40}

\* ------------------------------------------------------------ small helpers
None == <<>>
Some(v) == <<v>>
IsSome(o) == o # <<>>
Unwrap(o) == o[1]

Min(a, b) == IF a < b THEN a ELSE b
DivCeil(a, b) == (a + b - 1) \div b

RECURSIVE SeqsUpTo(_, _)
SeqsUpTo(S, n) ==
    IF n = 0 THEN {<<>>}
    ELSE LET shorter == SeqsUpTo(S, n - 1)
         IN  shorter \cup {Append(s, b) : s \in {t \in shorter : Len(t) = n - 1}, b \in S}

Chars(s) == {SubSeq(s, i, i) : i \in 1..Len(s)}
Digits == "0123456789"
TypeChars == Chars("abcdefghijklmnopqrstuvwxyzABCDEFGHIJKLMNOPQRSTUVWXYZ0123456789-")

StartsWith(s, p) == Len(s) >= Len(p) /\ SubSeq(s, 1, Len(p)) = p

\* first position at which pat occurs in s, 0 when it does not occur
Find(s, pat) ==
    LET hits == {i \in 1..(Len(s) - Len(pat) + 1) : SubSeq(s, i, i + Len(pat) - 1) = pat}
    IN  IF hits = {} THEN 0 ELSE CHOOSE i \in hits : \A j \in hits : i <= j

\* str::split('/'): the pieces between the separators, never an empty list
RECURSIVE Split(_, _)
Split(s, sep) ==
    LET i == Find(s, sep)
    IN  IF i = 0 THEN <<s>>
        ELSE <<SubSeq(s, 1, i - 1)>> \o Split(SubSeq(s, i + 1, Len(s)), sep)

\* str::split_once(pat): None, or the text before and after the first pat
SplitOnce(s, pat) ==
    LET i == Find(s, pat)
    IN  IF i = 0 THEN None
        ELSE Some(<<SubSeq(s, 1, i - 1), SubSeq(s, i + Len(pat), Len(s))>>)

DigitVal(c) == Find(Digits, c) - 1

RECURSIVE DecVal(_)
DecVal(s) ==
    IF Len(s) = 0 THEN 0
    ELSE 10 * DecVal(SubSeq(s, 1, Len(s) - 1)) + DigitVal(SubSeq(s, Len(s), Len(s)))

\* str::parse::<u32>() on the short index texts of the model: Some(n) for a
\* non-empty run of decimal digits (at most four here, so no overflow), else None
ParseUint(s) ==
    LET t == IF Len(s) > 1 /\ SubSeq(s, 1, 1) = "+" THEN SubSeq(s, 2, Len(s)) ELSE s
    IN  IF Len(t) = 0 \/ Len(t) > 4 \/ ~(Chars(t) \subseteq Chars(Digits)) THEN None
        ELSE Some(DecVal(t))

RECURSIVE ToStr(_)
ToStr(n) ==
    IF n < 10 THEN SubSeq(Digits, n + 1, n + 1)
    ELSE ToStr(n \div 10) \o SubSeq(Digits, (n % 10) + 1, (n % 10) + 1)

\* ----------------------------------------------- byte-level UR capability
\* (the `ur' crate the repository calls: bytewords, single-part codec, fountain
\*  encoder and accumulating decoder)

\* stand-in for CRC-32: injective on the payloads of the model (digits 1..2 in
\* base 31), reduced modulo a prime so that longer byte strings stay in range
\* (the sum of (byte + 1) * 31^(bytes after it), computed by halves)
CrcMul(a, b) == (((a * (b \div 256)) % 65521) * 256 + a * (b % 256)) % 65521
RECURSIVE CrcPow(_)
CrcPow(k) ==
    IF k = 0 THEN 1
    ELSE IF k % 2 = 1 THEN CrcMul(31, CrcPow(k - 1))
    ELSE CrcMul(CrcPow(k \div 2), CrcPow(k \div 2))
RECURSIVE Crc32(_)
Crc32(bytes) ==
    IF bytes = <<>> THEN 0
    ELSE IF Len(bytes) = 1 THEN (bytes[1] + 1) % 65521
    ELSE LET half == Len(bytes) \div 2
         IN  (CrcMul(Crc32(SubSeq(bytes, 1, half)), CrcPow(Len(bytes) - half))
              + Crc32(SubSeq(bytes, half + 1, Len(bytes)))) % 65521

\* bytewords (minimal style): two letters per byte, four checksum bytes appended
BytewordsEncode(bytes) == [bytes |-> bytes, crc |-> Crc32(bytes)]
BytewordsLen(bw) == 2 * (Len(bw.bytes) + 4)
BytewordsDecode(bw) ==
    IF bw.crc = Crc32(bw.bytes) THEN [ok |-> TRUE, bytes |-> bw.bytes]
    ELSE [ok |-> FALSE, bytes |-> <<>>]

\* length in characters of a UR text
TextLen(text) ==
    Len(text.head) + (IF IsSome(text.body) THEN BytewordsLen(Unwrap(text.body)) ELSE 0)

\* ur::encode(data, ur_type): "ur:<type>/<bytewords>"
UrEncode(data, ur_type) ==
    [head |-> "ur:" \o ur_type \o "/", body |-> Some(BytewordsEncode(data))]

FindLast(s, pat) ==
    LET hits == {i \in 1..(Len(s) - Len(pat) + 1) : SubSeq(s, i, i + Len(pat) - 1) = pat}
    IN  IF hits = {} THEN 0 ELSE CHOOSE i \in hits : \A j \in hits : i >= j

\* the last '/'-separated piece of a text is `tail' followed by the body's
\* letters; it is a bytewords text only when the body stands alone
PayloadDecode(tail, body) ==
    IF tail = "" /\ IsSome(body) THEN BytewordsDecode(Unwrap(body))
    ELSE [ok |-> FALSE, bytes |-> <<>>]

UrFail == [ok |-> FALSE, kind |-> "", data |-> <<>>]

\* ur::decode(text) -> (Kind, bytes): strips "ur:", takes the type up to the
\* first '/', and reads what follows either as a body (SinglePart) or as
\* "<seq>-<count>/<body>" (MultiPart).  Both kinds decode successfully.
UrDecode(text) ==
    IF ~StartsWith(text.head, "ur:") THEN UrFail
    ELSE
      LET strip_scheme == SubSeq(text.head, 4, Len(text.head))
          i == Find(strip_scheme, "/")
      IN  IF i = 0 THEN UrFail
          ELSE
            LET type_ == SubSeq(strip_scheme, 1, i - 1)
                strip_type == SubSeq(strip_scheme, i + 1, Len(strip_scheme))
                j == FindLast(strip_type, "/")
            IN  IF ~(Chars(type_) \subseteq TypeChars) THEN UrFail
                ELSE IF j = 0 THEN
                  LET b == PayloadDecode(strip_type, text.body)
                  IN  IF b.ok THEN [ok |-> TRUE, kind |-> "SinglePart", data |-> b.bytes]
                      ELSE UrFail
                ELSE
                  LET indices == SubSeq(strip_type, 1, j - 1)
                      payload == SubSeq(strip_type, j + 1, Len(strip_type))
                      ix == SplitOnce(indices, "-")
                      b == PayloadDecode(payload, text.body)
                  IN  IF ~IsSome(ix) THEN UrFail
                      ELSE IF ~IsSome(ParseUint(Unwrap(ix)[1])) \/ ~IsSome(ParseUint(Unwrap(ix)[2]))
                        THEN UrFail
                      ELSE IF b.ok THEN [ok |-> TRUE, kind |-> "MultiPart", data |-> b.bytes]
                      ELSE UrFail

\* fountain::Part and its CBOR form (array of five items)
PartCbor(part) ==
    <<133, part.sequence, part.sequence_count, part.message_length, part.checksum,
      Len(part.data)>> \o part.data

NoPart == [sequence |-> 0, sequence_count |-> 0, message_length |-> 0, checksum |-> 0,
           data |-> <<>>]

PartFromCbor(bytes) ==
    IF Len(bytes) >= 6 /\ bytes[1] = 133 /\ bytes[6] = Len(bytes) - 6
    THEN [ok |-> TRUE,
          part |-> [sequence |-> bytes[2], sequence_count |-> bytes[3],
                    message_length |-> bytes[4], checksum |-> bytes[5],
                    data |-> SubSeq(bytes, 7, Len(bytes))]]
    ELSE [ok |-> FALSE, part |-> NoPart]

\* fountain::fragment_length
FragmentLength(data_length, max_fragment_length) ==
    LET fragment_count == DivCeil(data_length, max_fragment_length)
    IN  DivCeil(data_length, fragment_count)

Zeros(n) == [i \in 1..n |-> 0]

\* fountain::Encoder::partition: equal fragments, the last one zero-padded
Partition(message, fragment_length) ==
    LET count == DivCeil(Len(message), fragment_length)
        padded == message \o Zeros(count * fragment_length - Len(message))
    IN  [k \in 1..count |-> SubSeq(padded, (k - 1) * fragment_length + 1, k * fragment_length)]

\* ur::Encoder::new(message, max_fragment_length, ur_type), then its first
\* fragment_count() parts: part k carries fragment k alone (a simple part)
UrEncoderParts(message, max_fragment_length, ur_type) ==
    IF message = <<>> \/ max_fragment_length = 0 THEN [ok |-> FALSE, parts |-> <<>>]
    ELSE
      LET fragments == Partition(message, FragmentLength(Len(message), max_fragment_length))
          n == Len(fragments)
          part(k) == [sequence |-> k, sequence_count |-> n, message_length |-> Len(message),
                      checksum |-> Crc32(message), data |-> fragments[k]]
      IN  [ok |-> TRUE,
           parts |-> [k \in 1..n |->
                        [head |-> "ur:" \o ur_type \o "/" \o ToStr(k) \o "-" \o ToStr(n) \o "/",
                         body |-> Some(BytewordsEncode(PartCbor(part(k))))]]]

\* ur::Decoder::default()
NewAccumulator ==
    [sequence_count |-> 0, message_length |-> 0, checksum |-> 0, fragment_length |-> 0,
     decoded |-> {}]

\* ur::Decoder::complete
AccComplete(acc) ==
    acc.message_length # 0 /\ Cardinality(acc.decoded) = acc.sequence_count

\* ur::Decoder::receive(text): the text must decode as a MultiPart UR holding a
\* fountain part that agrees with the parts accepted before.  The UR type is
\* not compared.  The texts of this model carry simple parts only
\* (sequence <= sequence_count), which is all encode_ur_with_fragments emits.
AccReceive(acc, text) ==
    LET d == UrDecode(text)
        p == PartFromCbor(d.data)
        part == p.part
        fail == [ok |-> FALSE, acc |-> acc]
    IN  IF ~d.ok \/ d.kind # "MultiPart" THEN fail
        ELSE IF ~p.ok THEN fail
        ELSE IF AccComplete(acc) THEN [ok |-> TRUE, acc |-> acc]
        ELSE IF part.sequence_count = 0 \/ part.data = <<>> \/ part.message_length = 0
               \/ part.sequence = 0 \/ part.sequence > part.sequence_count
          THEN fail
        ELSE IF acc.decoded = {} THEN
          [ok |-> TRUE,
           acc |-> [sequence_count |-> part.sequence_count,
                    message_length |-> part.message_length,
                    checksum |-> part.checksum,
                    fragment_length |-> Len(part.data),
                    decoded |-> {[index |-> part.sequence - 1, data |-> part.data]}]]
        ELSE IF part.sequence_count # acc.sequence_count
               \/ part.message_length # acc.message_length
               \/ part.checksum # acc.checksum
               \/ Len(part.data) # acc.fragment_length
          THEN fail
        ELSE IF \E e \in acc.decoded : e.index = part.sequence - 1
          THEN [ok |-> TRUE, acc |-> acc]
        ELSE [ok |-> TRUE,
              acc |-> [acc EXCEPT !.decoded =
                         @ \cup {[index |-> part.sequence - 1, data |-> part.data]}]]

RECURSIVE Concat(_, _, _)
Concat(decoded, k, n) ==
    IF k >= n THEN <<>>
    ELSE (CHOOSE e \in decoded : e.index = k).data \o Concat(decoded, k + 1, n)

\* ur::Decoder::message: Ok(None) before completion; once complete the joined
\* fragments cut to message_length, an error when the padding is not zero
AccMessage(acc) ==
    IF ~AccComplete(acc) THEN [ok |-> TRUE, message |-> None]
    ELSE
      LET combined == Concat(acc.decoded, 0, acc.sequence_count)
      IN  IF Len(combined) < acc.message_length THEN [ok |-> FALSE, message |-> None]
          ELSE IF \E i \in (acc.message_length + 1)..Len(combined) : combined[i] # 0
            THEN [ok |-> FALSE, message |-> None]
          ELSE [ok |-> TRUE, message |-> Some(SubSeq(combined, 1, acc.message_length))]

\* ur::Decoder::progress: 0..99 while accumulating
AccProgress(acc) ==
    IF acc.sequence_count = 0 THEN 0
    ELSE Min(99, (100 * Cardinality(acc.decoded)) \div acc.sequence_count)

\* ------------------------------------------------------- keystone/ur.rs

\* extract_ur_type: the text between "ur:" and the first '/'.  (Every text of
\* the model that has a body has its '/' before it, so the first piece is
\* always part of `head'.)
extract_ur_type(text) ==
    IF ~StartsWith(text.head, "ur:") THEN [ok |-> FALSE, ur_type |-> ""]
    ELSE [ok |-> TRUE, ur_type |-> Split(SubSeq(text.head, 4, Len(text.head)), "/")[1]]

payload_encoding(ur_type) ==
    IF StartsWith(ur_type, "xrp-") THEN "Json" ELSE "Cbor"

\* KeystoneMetadata::default()
DefaultMetadata == [sequence |-> None, total_parts |-> None, multipart |-> FALSE]

NoPayload == [ur_type |-> "", data |-> <<>>, metadata |-> DefaultMetadata, encoding |-> "Binary"]

\* decode_ur: ur::decode, whose Kind is discarded, then extract_ur_type
decode_ur(text) ==
    LET d == UrDecode(text)
        t == extract_ur_type(text)
    IN  IF ~d.ok \/ ~t.ok THEN [ok |-> FALSE, payload |-> NoPayload]
        ELSE [ok |-> TRUE,
              payload |-> [ur_type |-> t.ur_type, data |-> d.data,
                           metadata |-> DefaultMetadata,
                           encoding |-> payload_encoding(t.ur_type)]]

encode_ur(ur_type, data) == UrEncode(data, ur_type)

\* encode_ur_with_fragments: the single-part text when it fits, else all the
\* fragment_count() parts of a fountain encoder
encode_ur_with_fragments(ur_type, data, max_fragment_len) ==
    LET single == encode_ur(ur_type, data)
        enc == UrEncoderParts(data, max_fragment_len, ur_type)
    IN  IF TextLen(single) <= max_fragment_len
          THEN [ok |-> TRUE, parts |-> <<single>>, is_multipart |-> FALSE]
        ELSE IF ~enc.ok THEN [ok |-> FALSE, parts |-> <<>>, is_multipart |-> FALSE]
        ELSE [ok |-> TRUE, parts |-> enc.parts, is_multipart |-> TRUE]

\* ------------------------------------------- keystone/multipart/encoder.rs

\* new() that keeps whatever parts came back, also after a failure
NewEncoder_Unchecked(ur_type, data, max_fragment_len) ==
    Some([parts |-> encode_ur_with_fragments(ur_type, data, max_fragment_len).parts,
          current_index |-> 0])

\* MultiPartEncoder::new: None when encode_ur_with_fragments fails
NewEncoder(ur_type, data, max_fragment_len) ==
    LET r == encode_ur_with_fragments(ur_type, data, max_fragment_len)
    IN  IF r.ok THEN Some([parts |-> r.parts, current_index |-> 0]) ELSE None

is_multipart(e) == Len(e.parts) > 1
part_count(e) == Len(e.parts)
all_parts(e) == e.parts

EncodeResult(e, index) ==
    [ur_string |-> e.parts[index + 1], part_num |-> index + 1,
     total_parts |-> Len(e.parts), is_multipart |-> is_multipart(e)]

\* part_at that numbers the parts from zero
part_at_ZeroBased(e, index) ==
    IF index >= Len(e.parts) THEN None
    ELSE Some([EncodeResult(e, index) EXCEPT !.part_num = index])

\* part_at(index): None past the end
part_at(e, index) ==
    IF index >= Len(e.parts) THEN None ELSE Some(EncodeResult(e, index))

\* ------------------------------------------- keystone/multipart/decoder.rs

\* parse_fragment_metadata: the second '/'-separated piece read as "<a>of<b>"
\* or "<a>-<b>".  A second piece made of the body's letters has no '-' and no
\* digits, so it yields (None, None) on either path.
parse_fragment_metadata(text) ==
    LET stripped == IF StartsWith(text.head, "ur:")
                      THEN SubSeq(text.head, 4, Len(text.head)) ELSE text.head
        pieces == Split(stripped, "/")
        none == [sequence |-> None, total_parts |-> None]
    IN  IF Len(pieces) < 2 THEN none
        ELSE IF Len(pieces) = 2 /\ IsSome(text.body) THEN none
        ELSE
          LET sequence_part == pieces[2]
              byOf == SplitOnce(sequence_part, "of")
              byDash == SplitOnce(sequence_part, "-")
          IN  IF IsSome(byOf)
                THEN [sequence |-> ParseUint(Unwrap(byOf)[1]),
                      total_parts |-> ParseUint(Unwrap(byOf)[2])]
              ELSE IF IsSome(byDash)
                THEN [sequence |-> ParseUint(Unwrap(byDash)[1]),
                      total_parts |-> ParseUint(Unwrap(byDash)[2])]
              ELSE none

\* is_complete that looks at the accumulator only
is_complete_AccOnly(decoder, single_part_result) ==
    IF IsSome(decoder) THEN AccComplete(Unwrap(decoder)) ELSE FALSE

\* is_complete
is_complete(decoder, single_part_result) ==
    IF IsSome(single_part_result) THEN TRUE
    ELSE IF IsSome(decoder) THEN AccComplete(Unwrap(decoder)) ELSE FALSE

NoRet == [ok |-> FALSE, progress |-> None, payload |-> None]
Err == [ok |-> FALSE, progress |-> None, payload |-> None]
OkProgress(p) == [ok |-> TRUE, progress |-> Some(p), payload |-> None]
OkPayload(p) == [ok |-> TRUE, progress |-> None, payload |-> Some(p)]

\* current_progress
current_progress(decoder, received_parts) ==
    IF ~IsSome(decoder) THEN Err
    ELSE
      LET complete == AccComplete(Unwrap(decoder))
      IN  OkProgress([parts_received |-> Cardinality(received_parts),
                      total_parts |-> None,
                      percentage |-> IF complete THEN 100 ELSE AccProgress(Unwrap(decoder)),
                      complete |-> complete])

\* result() without the completeness guard, defaulting a missing message
result_Unguarded(decoder, received_parts, iter_first, single_part_result) ==
    IF IsSome(single_part_result) THEN OkPayload(Unwrap(single_part_result))
    ELSE IF ~IsSome(decoder) THEN Err
    ELSE
      LET m == AccMessage(Unwrap(decoder))
      IN  IF ~m.ok THEN Err
          ELSE OkPayload([ur_type |-> "unknown",
                          data |-> IF IsSome(m.message) THEN Unwrap(m.message) ELSE <<>>,
                          metadata |-> [sequence |-> None, total_parts |-> None,
                                        multipart |-> TRUE],
                          encoding |-> payload_encoding("unknown")])

\* result(): the cached single-part payload, else the accumulator's message
\* with the type and index metadata of received_parts.iter().next(), the
\* element `iter_first' that the HashSet's iteration yields first.  The order
\* of a HashSet is unspecified: any stored text may come first, and an
\* insertion may change which one does.
result(decoder, received_parts, iter_first, single_part_result) ==
    IF IsSome(single_part_result) THEN OkPayload(Unwrap(single_part_result))
    ELSE IF ~IsSome(decoder) THEN Err
    ELSE IF ~AccComplete(Unwrap(decoder)) THEN Err
    ELSE
      LET m == AccMessage(Unwrap(decoder))
      IN  IF ~m.ok \/ ~IsSome(m.message) THEN Err
          ELSE IF ~IsSome(iter_first) THEN Err
          ELSE
            LET first_part == Unwrap(iter_first)
                t == extract_ur_type(first_part)
                ur_type == IF t.ok THEN t.ur_type ELSE "unknown"
                meta == parse_fragment_metadata(first_part)
            IN  OkPayload([ur_type |-> ur_type,
                           data |-> Unwrap(m.message),
                           metadata |-> [sequence |-> meta.sequence,
                                         total_parts |-> meta.total_parts,
                                         multipart |-> TRUE],
                           encoding |-> payload_encoding(ur_type)])

\* ------------------------------------------- fixed-width integers and text
\* An integer of the program is the big-endian string of its bytes, as wide
\* as its type: u8 one byte, u32 four, u64 and i64 eight, i128 sixteen (signed
\* types in two's complement).  A String is the sequence of its UTF-8 bytes.

AllZero(s) == \A i \in 1..Len(s) : s[i] = 0

\* the u64 / u32 / u8 of a small natural (below 2^31)
U64(n) ==
    <<0, 0, 0, 0, (n \div 16777216) % 256, (n \div 65536) % 256, (n \div 256) % 256, n % 256>>
U32(n) == SubSeq(U64(n), 5, 8)
U8(n) == <<n % 256>>

\* zero-extension (unsigned `as' to a wider type) and truncation (`as' to a
\* narrower type keeps the low bytes)
ZeroExtend(be, width) == Zeros(width - Len(be)) \o be
Truncate(be, width) == SubSeq(be, Len(be) - width + 1, Len(be))
\* sign extension (signed `as' to a wider type)
SignExtend(be, width) ==
    [i \in 1..(width - Len(be)) |-> IF be[1] >= 128 THEN 255 ELSE 0] \o be
IsNegative(be) == be[1] >= 128
\* bitwise complement: -1 - x in two's complement
Not(be) == [i \in 1..Len(be) |-> 255 - be[i]]

\* the natural a byte string denotes, for values below 2^31
IsSmall(be) == AllZero(SubSeq(be, 1, Len(be) - 4)) /\ (Len(be) < 4 \/ be[Len(be) - 3] < 128)
RECURSIVE ToNat(_)
ToNat(be) ==
    IF be = <<>> THEN 0 ELSE 256 * ToNat(SubSeq(be, 1, Len(be) - 1)) + be[Len(be)]

\* be * m + a on byte strings (m, a below 256): the product's low bytes and
\* the carry out of the top byte
RECURSIVE MulAdd(_, _, _)
MulAddLow(rest, low) == [bytes |-> Append(rest.bytes, low % 256), carry |-> rest.carry]
MulAdd(be, m, a) ==
    IF be = <<>> THEN [bytes |-> <<>>, carry |-> a]
    ELSE MulAddLow(MulAdd(SubSeq(be, 1, Len(be) - 1), m, (be[Len(be)] * m + a) \div 256),
                   be[Len(be)] * m + a)

\* be divided by d (below 256): quotient bytes and remainder
RECURSIVE DivMod(_, _, _)
DivModHigh(rest, digit) == [bytes |-> <<digit>> \o rest.bytes, rem |-> rest.rem]
DivMod(be, d, rem) ==
    IF be = <<>> THEN [bytes |-> <<>>, rem |-> rem]
    ELSE DivModHigh(DivMod(SubSeq(be, 2, Len(be)), d, (rem * 256 + be[1]) % d),
                    (rem * 256 + be[1]) \div d)

\* u32::to_string: decimal digits, no leading zeros (q is the value divided
\* by ten, with the remainder)
RECURSIVE U32ToString(_)
DigitsOf(q) ==
    IF AllZero(q.bytes) THEN SubSeq(Digits, q.rem + 1, q.rem + 1)
    ELSE U32ToString(q.bytes) \o SubSeq(Digits, q.rem + 1, q.rem + 1)
U32ToString(be) == DigitsOf(DivMod(be, 10, 0))

\* str::parse::<u32>(): an optional '+', then one or more decimal digits whose
\* value fits 32 bits; anything else is an error
RECURSIVE ParseDigits(_, _)
ParseNext(r, s) == IF r.carry # 0 THEN None ELSE ParseDigits(SubSeq(s, 2, Len(s)), r.bytes)
ParseDigits(s, acc) ==
    IF s = "" THEN Some(acc) ELSE ParseNext(MulAdd(acc, 10, DigitVal(SubSeq(s, 1, 1))), s)

ParseU32(s) ==
    LET t == IF Len(s) >= 1 /\ SubSeq(s, 1, 1) = "+" THEN SubSeq(s, 2, Len(s)) ELSE s
    IN  IF Len(t) = 0 \/ ~(Chars(t) \subseteq Chars(Digits)) THEN None
        ELSE ParseDigits(t, <<0, 0, 0, 0>>)

\* the ASCII code of a one-character text
Lower == "abcdefghijklmnopqrstuvwxyz"
Punct == "#$%&'()*+,-./"
Code(c) ==
    IF Find(Lower, c) > 0 THEN 96 + Find(Lower, c)
    ELSE IF Find(Digits, c) > 0 THEN 47 + Find(Digits, c)
    ELSE IF Find(Punct, c) > 0 THEN 34 + Find(Punct, c)
    ELSE IF c = " " THEN 32
    ELSE IF c = ":" THEN 58
    ELSE IF c = "_" THEN 95
    ELSE IF c = "{" THEN 123
    ELSE 125
\* String::as_bytes of a text over these characters
Ascii(s) == [i \in 1..Len(s) |-> Code(SubSeq(s, i, i))]

RECURSIVE Flatten(_)
Flatten(ss) == IF ss = <<>> THEN <<>> ELSE ss[1] \o Flatten(Tail(ss))

\* ------------------------------------------------------------- minicbor
\* (the CBOR library the codecs call: Encoder writes the shortest head for a
\*  value; Decoder reads at a position that only moves forward, also when a
\*  read fails after its head byte was taken)

\* a data item's head: major type and argument in the shortest form
CborHead(major, be8) ==
    IF ~AllZero(SubSeq(be8, 1, 4)) THEN <<major * 32 + 27>> \o be8
    ELSE IF ~AllZero(SubSeq(be8, 5, 6)) THEN <<major * 32 + 26>> \o SubSeq(be8, 5, 8)
    ELSE IF be8[7] # 0 THEN <<major * 32 + 25>> \o SubSeq(be8, 7, 8)
    ELSE IF be8[8] >= 24 THEN <<major * 32 + 24, be8[8]>>
    ELSE <<major * 32 + be8[8]>>

\* Encoder::u8 / u32 / u64 / i64 / tag / map / array / bytes / str
e_u8(n) == CborHead(0, U64(n))
e_u32(be4) == CborHead(0, ZeroExtend(be4, 8))
e_u64(be8) == CborHead(0, be8)
e_i64(be8) == IF IsNegative(be8) THEN CborHead(1, Not(be8)) ELSE CborHead(0, be8)
e_tag(n) == CborHead(6, U64(n))
e_map(n) == CborHead(5, U64(n))
e_array(n) == CborHead(4, U64(n))
e_bytes(b) == CborHead(2, U64(Len(b))) \o b
e_str(s) == CborHead(3, U64(Len(s))) \o s

\* the head at `pos': major type, additional information, argument and the
\* position after it; not ok at the end of the input or when the argument's
\* bytes are cut short (the head byte is consumed then)
ReadHead(b, pos) ==
    IF pos > Len(b) THEN [ok |-> FALSE, major |-> 0, info |-> 0, arg |-> U64(0), pos |-> pos]
    ELSE
      LET major == b[pos] \div 32
          info == b[pos] % 32
          n == IF info = 24 THEN 1 ELSE IF info = 25 THEN 2 ELSE IF info = 26 THEN 4
               ELSE IF info = 27 THEN 8 ELSE 0
      IN  IF pos + n > Len(b)
            THEN [ok |-> FALSE, major |-> major, info |-> info, arg |-> U64(0), pos |-> pos + 1]
          ELSE [ok |-> TRUE, major |-> major, info |-> info,
                arg |-> IF n = 0 THEN U64(info)
                        ELSE ZeroExtend(SubSeq(b, pos + 1, pos + n), 8),
                pos |-> pos + 1 + n]

\* a decoding step's outcome: the value and the position after it, or an error
\* with its message (LibError stands for the library's own messages)
LibError == "minicbor decode error"
DErr(err, pos) == [ok |-> FALSE, v |-> <<>>, pos |-> pos, err |-> err]
DFail(pos) == DErr(LibError, pos)
DOk(v, pos) == [ok |-> TRUE, v |-> v, pos |-> pos, err |-> ""]

\* Decoder::u8 / u32 / u64: an unsigned integer that fits `width' bytes (h is
\* the head at pos)
UnsignedOf(h, pos, width) ==
    IF ~h.ok THEN DFail(h.pos)
    ELSE IF h.major # 0 \/ h.info > 27 THEN DFail(pos + 1)
    ELSE IF ~AllZero(SubSeq(h.arg, 1, 8 - width)) THEN DFail(h.pos)
    ELSE DOk(Truncate(h.arg, width), h.pos)
d_u8(b, pos) == UnsignedOf(ReadHead(b, pos), pos, 1)
d_u32(b, pos) == UnsignedOf(ReadHead(b, pos), pos, 4)
d_u64(b, pos) == UnsignedOf(ReadHead(b, pos), pos, 8)

\* Decoder::i64: an unsigned integer up to 2^63 - 1, or a negative integer
\* down to -2^63
SignedOf(h, pos) ==
    IF ~h.ok THEN DFail(h.pos)
    ELSE IF h.major > 1 \/ h.info > 27 THEN DFail(pos + 1)
    ELSE IF IsNegative(h.arg) THEN DFail(h.pos)
    ELSE IF h.major = 0 THEN DOk(h.arg, h.pos)
    ELSE DOk(Not(h.arg), h.pos)
d_i64(b, pos) == SignedOf(ReadHead(b, pos), pos)

\* Decoder::tag: the tag number
TagOf(h, pos) ==
    IF ~h.ok THEN DFail(h.pos)
    ELSE IF h.major # 6 \/ h.info > 27 THEN DFail(pos + 1)
    ELSE DOk(h.arg, h.pos)
d_tag(b, pos) == TagOf(ReadHead(b, pos), pos)

\* Decoder::map / array: Ok(Some(length)), Ok(None) for an indefinite-length
\* container
ContainerOf(h, pos, major) ==
    IF ~h.ok THEN DFail(h.pos)
    ELSE IF h.major # major THEN DFail(pos + 1)
    ELSE IF h.info = 31 THEN DOk(None, h.pos)
    ELSE IF h.info > 27 THEN DFail(pos + 1)
    ELSE DOk(Some(h.arg), h.pos)
d_map(b, pos) == ContainerOf(ReadHead(b, pos), pos, 5)
d_array(b, pos) == ContainerOf(ReadHead(b, pos), pos, 4)

\* Decoder::bytes: a definite-length byte string that lies within the input
StringOf(h, b, pos, major) ==
    IF ~h.ok THEN DFail(h.pos)
    ELSE IF h.major # major \/ h.info > 27 THEN DFail(pos + 1)
    ELSE IF ~IsSmall(h.arg) THEN DFail(h.pos)
    ELSE IF h.pos + ToNat(h.arg) - 1 > Len(b) THEN DFail(h.pos)
    ELSE DOk(SubSeq(b, h.pos, h.pos + ToNat(h.arg) - 1), h.pos + ToNat(h.arg))
d_bytes(b, pos) == StringOf(ReadHead(b, pos), b, pos, 2)

\* Decoder::str: a definite-length text string of valid UTF-8 (the texts of
\* the model are ASCII)
Utf8Of(r) == IF r.ok /\ \E i \in 1..Len(r.v) : r.v[i] >= 128 THEN DFail(r.pos) ELSE r
d_str(b, pos) == Utf8Of(StringOf(ReadHead(b, pos), b, pos, 3))

\* Decoder::skip: pass over `n' complete data items, nested ones included
\* (definite-length items; indefinite-length items are not skipped)
RECURSIVE SkipItems(_, _, _)
SkipFrom(h, b, n) ==
    IF ~h.ok \/ h.info > 27 THEN DFail(h.pos)
    ELSE IF h.major \in {0, 1, 7} THEN SkipItems(b, h.pos, n - 1)
    ELSE IF ~IsSmall(h.arg) THEN DFail(h.pos)
    ELSE IF h.major \in {2, 3}
      THEN IF h.pos + ToNat(h.arg) - 1 > Len(b) THEN DFail(h.pos)
           ELSE SkipItems(b, h.pos + ToNat(h.arg), n - 1)
    ELSE IF h.major = 4 THEN SkipItems(b, h.pos, n - 1 + ToNat(h.arg))
    ELSE IF h.major = 5 THEN SkipItems(b, h.pos, n - 1 + 2 * ToNat(h.arg))
    ELSE SkipItems(b, h.pos, n)
SkipItems(b, pos, n) == IF n = 0 THEN DOk(<<>>, pos) ELSE SkipFrom(ReadHead(b, pos), b, n)
d_skip(b, pos) == SkipItems(b, pos, 1)

\* ------------------------------------------------ keystone/cbor/mod.rs
\* tag numbers
UUID == 37
CRYPTO_KEYPATH == 304
ETH_SIGN_REQUEST == 401
ETH_SIGNATURE == 402
SOL_SIGN_REQUEST == 1101
SOL_SIGNATURE == 1102

\* what a codec returns: Ok(value) or Err(message)
COk(v) == [ok |-> TRUE, v |-> v, err |-> ""]
CErr(err) == [ok |-> FALSE, v |-> <<>>, err |-> err]

\* cbor::from_bytes: minicbor::decode runs the type's decoder from the first
\* byte and does not look at what follows the value (r is what the decoder
\* returned)
from_bytes(r) == IF r.ok THEN COk(r.v) ELSE CErr("CBOR decode failed: " \o r.err)

\* ------------------------------------------- keystone/crypto_keypath.rs

PathComponent(index, hardened) == [index |-> index, hardened |-> hardened]

\* index | 0x80000000 and index & 0x7FFFFFFF on the four bytes of a u32
SetTopBit(be4) == [be4 EXCEPT ![1] = IF @ >= 128 THEN @ ELSE @ + 128]
ClearTopBit(be4) == [be4 EXCEPT ![1] = @ % 128]
TopBit(be4) == be4[1] >= 128

to_bip32_index(c) == IF c.hardened THEN SetTopBit(c.index) ELSE c.index

\* CryptoKeyPath::new
NewKeyPath(components) ==
    [components |-> components, source_fingerprint |-> None, depth |-> None]

\* str::trim over the blank
RECURSIVE Trim(_)
Trim(s) ==
    IF s = "" THEN s
    ELSE IF SubSeq(s, 1, 1) = " " THEN Trim(SubSeq(s, 2, Len(s)))
    ELSE IF SubSeq(s, Len(s), Len(s)) = " " THEN Trim(SubSeq(s, 1, Len(s) - 1))
    ELSE s

EndsWith(s, p) == Len(s) >= Len(p) /\ SubSeq(s, Len(s) - Len(p) + 1, Len(s)) = p

\* one '/'-separated piece of a textual path
ParseComponent(component) ==
    LET hardened == EndsWith(component, "'") \/ EndsWith(component, "h")
        index_str == IF hardened THEN SubSeq(component, 1, Len(component) - 1) ELSE component
        index == ParseU32(index_str)
    IN  IF IsSome(index) THEN COk(PathComponent(Unwrap(index), hardened))
        ELSE CErr("Invalid path component '" \o component \o "'")

RECURSIVE ParseComponents(_)
ParseComponents(pieces) ==
    IF pieces = <<>> THEN COk(<<>>)
    ELSE LET c == ParseComponent(pieces[1])
             rest == ParseComponents(Tail(pieces))
         IN  IF ~c.ok THEN c
             ELSE IF ~rest.ok THEN rest
             ELSE COk(<<c.v>> \o rest.v)

\* CryptoKeyPath::from_str
from_str(text) ==
    LET trimmed == Trim(text)
        path == IF StartsWith(trimmed, "m/") THEN SubSeq(trimmed, 3, Len(trimmed)) ELSE trimmed
    IN  IF path = "" THEN COk(NewKeyPath(<<>>))
        ELSE LET components == ParseComponents(Split(path, "/"))
             IN  IF components.ok THEN COk(NewKeyPath(components.v)) ELSE components

RECURSIVE Join(_, _)
Join(pieces, sep) ==
    IF pieces = <<>> THEN ""
    ELSE IF Len(pieces) = 1 THEN pieces[1]
    ELSE pieces[1] \o sep \o Join(Tail(pieces), sep)

\* CryptoKeyPath::to_string
to_string(p) ==
    IF p.components = <<>> THEN "m"
    ELSE "m/" \o Join([i \in 1..Len(p.components) |->
                         IF p.components[i].hardened
                           THEN U32ToString(p.components[i].index) \o "'"
                         ELSE U32ToString(p.components[i].index)], "/")

\* the entries a codec writes after the map header, in the order written
OptEntry(present, entry) == IF present THEN <<entry>> ELSE <<>>
BoolToInt(c) == IF c THEN 1 ELSE 0

\* impl Encode for CryptoKeyPath: the declared map size and the entries
CryptoKeyPath_map_size(p) ==
    1 + BoolToInt(IsSome(p.source_fingerprint)) + BoolToInt(IsSome(p.depth))
CryptoKeyPath_entries(p) ==
    <<e_u64(U64(1)) \o e_array(Len(p.components))
        \o Flatten([i \in 1..Len(p.components) |-> e_u32(to_bip32_index(p.components[i]))])>>
    \o OptEntry(IsSome(p.source_fingerprint), e_u64(U64(2)) \o e_bytes(Unwrap(p.source_fingerprint)))
    \o OptEntry(IsSome(p.depth), e_u64(U64(3)) \o e_u8(Unwrap(p.depth)))
\* a tagged map: the tags, the header with the declared size, the entries
WriteMap(tags, size, entries) ==
    Flatten([i \in 1..Len(tags) |-> e_tag(tags[i])]) \o e_map(size) \o Flatten(entries)
CryptoKeyPath_encode(p) ==
    WriteMap(<<CRYPTO_KEYPATH>>, CryptoKeyPath_map_size(p), CryptoKeyPath_entries(p))

\* a decoded field: the updated fields and the position after the value
SetField(r, f, name) == IF r.ok THEN DOk([f EXCEPT ![name] = Some(r.v)], r.pos) ELSE r
Skipped(r, f) == IF r.ok THEN DOk(f, r.pos) ELSE r
\* a key as a number to match on; a key beyond the small numbers matches no arm
KeyNumber(be) == IF IsSmall(be) THEN ToNat(be) ELSE -1

\* the array of combined indices
RECURSIVE DecodeComponents(_, _, _, _)
PushComponent(bip32_index, b, n, comps) ==
    IF ~bip32_index.ok THEN bip32_index
    ELSE DecodeComponents(b, bip32_index.pos, n - 1,
                          Append(comps, PathComponent(ClearTopBit(bip32_index.v),
                                                      TopBit(bip32_index.v))))
DecodeComponents(b, pos, n, comps) ==
    IF n = 0 THEN DOk(comps, pos) ELSE PushComponent(d_u32(b, pos), b, n, comps)

\* `for _ in 0..len' over a length too large for the input ends in a read
\* past the end
LoopCount(len) == IF IsSmall(len) THEN ToNat(len) ELSE -1

\* the arms of `match key' in impl Decode for CryptoKeyPath
ComponentsOf(arr_len, b, f) ==
    IF ~arr_len.ok THEN arr_len
    ELSE IF arr_len.v = None THEN DErr("Expected definite-length array", arr_len.pos)
    ELSE IF LoopCount(Unwrap(arr_len.v)) < 0 THEN DFail(Len(b) + 1)
    ELSE SetField(DecodeComponents(b, arr_len.pos, LoopCount(Unwrap(arr_len.v)), <<>>),
                  f, "components")
FingerprintOf(bytes, f) ==
    IF ~bytes.ok THEN bytes
    ELSE IF Len(bytes.v) = 4 THEN DOk([f EXCEPT !.source_fingerprint = Some(bytes.v)], bytes.pos)
    ELSE DOk(f, bytes.pos)
DepthOf(depth, f) ==
    IF ~depth.ok THEN depth ELSE DOk([f EXCEPT !.depth = Some(depth.v[1])], depth.pos)
CryptoKeyPath_entry(key, b, pos, f) ==
    CASE key = 1 -> ComponentsOf(d_array(b, pos), b, f)
      [] key = 2 -> FingerprintOf(d_bytes(b, pos), f)
      [] key = 3 -> DepthOf(d_u8(b, pos), f)
      [] OTHER -> Skipped(d_skip(b, pos), f)

CryptoKeyPath_finish(f) ==
    IF ~IsSome(f.components) THEN CErr("Missing components")
    ELSE COk([components |-> Unwrap(f.components),
              source_fingerprint |-> f.source_fingerprint, depth |-> f.depth])

\* a tagged or untagged map read by the decoder of the type named T, from
\* `pos' (defined with the other decoders below)
RECURSIVE DecodeMap(_, _, _)

\* impl Decode for CryptoKeyPath
CryptoKeyPath_decode(b, pos) == DecodeMap("crypto-keypath", b, pos)

\* ---------------------------------------------- keystone/messages/*.rs
\* A message is a record with its variant's name and fields; request ids are
\* the sixteen bytes of the Uuid.

\* Uuid::from_slice: exactly sixteen bytes
UuidFromSlice(bytes) == IF Len(bytes) = 16 THEN Some(bytes) ELSE None

\* key 1 as the Hedera, Solana and Stellar decoders read it: tag 37 and a
\* sixteen-byte string, anything else an error (wrong_tag is the decoder's
\* message for another tag)
StrictUuid(uuid_bytes) ==
    IF ~uuid_bytes.ok THEN uuid_bytes
    ELSE IF ~IsSome(UuidFromSlice(uuid_bytes.v)) THEN DErr("invalid UUID", uuid_bytes.pos)
    ELSE uuid_bytes
StrictTag(tag, b, wrong_tag) ==
    IF ~tag.ok THEN tag
    ELSE IF tag.v # U64(UUID) THEN DErr(wrong_tag, tag.pos)
    ELSE StrictUuid(d_bytes(b, tag.pos))
RequestIdStrict(b, pos, wrong_tag) == StrictTag(d_tag(b, pos), b, wrong_tag)

\* key 1 as the Ethereum decoders read it: a tag; when it is 37 a byte string
\* follows, kept when it has sixteen bytes; after any other tag nothing more
\* is read
LenientUuid(bytes, f) ==
    IF ~bytes.ok THEN bytes
    ELSE DOk([f EXCEPT !.request_id = UuidFromSlice(bytes.v)], bytes.pos)
LenientTag(tag, b, f) ==
    IF ~tag.ok THEN tag
    ELSE IF tag.v = U64(UUID) THEN LenientUuid(d_bytes(b, tag.pos), f)
    ELSE DOk(f, tag.pos)
RequestIdLenient(b, pos, f) == LenientTag(d_tag(b, pos), b, f)

\* a derivation path behind an explicit tag 304 (the path's own encoding
\* starts with a second tag 304)
KeyPathAfter(tag, b, wrong_tag) ==
    IF ~tag.ok THEN tag
    ELSE IF tag.v # U64(CRYPTO_KEYPATH) THEN DErr(wrong_tag, tag.pos)
    ELSE CryptoKeyPath_decode(b, tag.pos)
TaggedKeyPath(b, pos, wrong_tag) == KeyPathAfter(d_tag(b, pos), b, wrong_tag)

UuidEntry(request_id) == OptEntry(IsSome(request_id), e_u8(1) \o e_tag(UUID) \o e_bytes(Unwrap(request_id)))


\* ---- ethereum.rs

\* EthDataType as u8, and TryFrom<u8>
EthDataType_into_u8(t) ==
    CASE t = "Transaction" -> 1 [] t = "TypedData" -> 2 [] t = "PersonalMessage" -> 3
      [] t = "TypedTransaction" -> 4
EthDataType_try_from(value) ==
    CASE value = 1 -> COk("Transaction") [] value = 2 -> COk("TypedData")
      [] value = 3 -> COk("PersonalMessage") [] value = 4 -> COk("TypedTransaction")
      [] OTHER -> CErr("Invalid ETH data type: " \o ToStr(value))

\* impl Encode for EthSignRequest.  chain_id, an i128, is written with
\* `as u64' when it is not negative and with `as i64' otherwise.
EthSignRequest_map_size(v) ==
    3 + BoolToInt(IsSome(v.request_id)) + BoolToInt(IsSome(v.chain_id))
      + BoolToInt(IsSome(v.address)) + BoolToInt(IsSome(v.origin))
EthSignRequest_entries(v, kp) ==
    OptEntry(IsSome(v.request_id), e_u64(U64(1)) \o e_tag(UUID) \o e_bytes(Unwrap(v.request_id)))
    \o <<e_u64(U64(2)) \o e_bytes(v.sign_data)>>
    \o <<e_u64(U64(3)) \o e_u8(EthDataType_into_u8(v.data_type))>>
    \o OptEntry(IsSome(v.chain_id),
                e_u64(U64(4))
                \o (IF ~IsNegative(Unwrap(v.chain_id))
                      THEN e_u64(Truncate(Unwrap(v.chain_id), 8))
                    ELSE e_i64(Truncate(Unwrap(v.chain_id), 8))))
    \o <<e_u64(U64(5)) \o kp>>
    \o OptEntry(IsSome(v.address), e_u64(U64(6)) \o e_bytes(Unwrap(v.address)))
    \o OptEntry(IsSome(v.origin), e_u64(U64(7)) \o e_str(Unwrap(v.origin)))

\* chain_id: d.i64(), else d.u64() from where the failed read stopped, else
\* None
ChainIdUnsigned(unsigned, f) ==
    IF unsigned.ok
      THEN DOk([f EXCEPT !.chain_id = Some(ZeroExtend(unsigned.v, 16))], unsigned.pos)
    ELSE DOk([f EXCEPT !.chain_id = None], unsigned.pos)
ChainIdSigned(signed, b, f) ==
    IF signed.ok THEN DOk([f EXCEPT !.chain_id = Some(SignExtend(signed.v, 16))], signed.pos)
    ELSE ChainIdUnsigned(d_u64(b, signed.pos), f)
ChainId(b, pos, f) == ChainIdSigned(d_i64(b, pos), b, f)

\* data_type: a u8 that EthDataType::try_from accepts
DataTypeOf(n, f) ==
    IF ~n.ok THEN n
    ELSE IF ~EthDataType_try_from(n.v[1]).ok THEN DErr("Invalid data type", n.pos)
    ELSE DOk([f EXCEPT !.data_type = Some(EthDataType_try_from(n.v[1]).v)], n.pos)

\* the arms of `match key' in impl Decode for EthSignRequest
EthSignRequest_entry(key, b, pos, f) ==
    CASE key = 1 -> RequestIdLenient(b, pos, f)
      [] key = 2 -> SetField(d_bytes(b, pos), f, "sign_data")
      [] key = 3 -> DataTypeOf(d_u8(b, pos), f)
      [] key = 4 -> ChainId(b, pos, f)
      [] key = 5 -> SetField(CryptoKeyPath_decode(b, pos), f, "derivation_path")
      [] key = 6 -> SetField(d_bytes(b, pos), f, "address")
      [] key = 7 -> SetField(d_str(b, pos), f, "origin")
      [] OTHER -> Skipped(d_skip(b, pos), f)

\* the required fields after the loop (first a variant that fills in a missing
\* data_type, for comparison)
EthSignRequest_finish_Defaulted(f) ==
    IF ~IsSome(f.sign_data) THEN CErr("Missing sign_data")
    ELSE IF ~IsSome(f.derivation_path) THEN CErr("Missing derivation_path")
    ELSE COk([variant |-> "EthSignRequest", request_id |-> f.request_id,
              sign_data |-> Unwrap(f.sign_data),
              data_type |-> IF IsSome(f.data_type) THEN Unwrap(f.data_type) ELSE "Transaction",
              chain_id |-> f.chain_id, derivation_path |-> Unwrap(f.derivation_path),
              address |-> f.address, origin |-> f.origin])
EthSignRequest_finish(f) ==
    IF ~IsSome(f.sign_data) THEN CErr("Missing sign_data")
    ELSE IF ~IsSome(f.data_type) THEN CErr("Missing data_type")
    ELSE IF ~IsSome(f.derivation_path) THEN CErr("Missing derivation_path")
    ELSE COk([variant |-> "EthSignRequest", request_id |-> f.request_id,
              sign_data |-> Unwrap(f.sign_data), data_type |-> Unwrap(f.data_type),
              chain_id |-> f.chain_id, derivation_path |-> Unwrap(f.derivation_path),
              address |-> f.address, origin |-> f.origin])

\* impl Encode / Decode for EthSignature
EthSignature_map_size(v) == 1 + BoolToInt(IsSome(v.request_id)) + BoolToInt(IsSome(v.origin))
EthSignature_entries(v) ==
    OptEntry(IsSome(v.request_id), e_u64(U64(1)) \o e_tag(UUID) \o e_bytes(Unwrap(v.request_id)))
    \o <<e_u64(U64(2)) \o e_bytes(v.signature)>>
    \o OptEntry(IsSome(v.origin), e_u64(U64(3)) \o e_str(Unwrap(v.origin)))

EthSignature_entry(key, b, pos, f) ==
    CASE key = 1 -> RequestIdLenient(b, pos, f)
      [] key = 2 -> SetField(d_bytes(b, pos), f, "signature")
      [] key = 3 -> SetField(d_str(b, pos), f, "origin")
      [] OTHER -> Skipped(d_skip(b, pos), f)

EthSignature_finish(f) ==
    IF ~IsSome(f.signature) THEN CErr("Missing signature")
    ELSE COk([variant |-> "EthSignature", request_id |-> f.request_id,
              signature |-> Unwrap(f.signature), origin |-> f.origin])

\* ---- crypto_account.rs
CryptoAccount_map_size(v) == IF IsSome(v.chain_code) THEN 4 ELSE 3
CryptoAccount_entries(v, kp) ==
    <<e_u8(1) \o e_u32(v.master_fingerprint)>>
    \o <<e_u8(2) \o e_bytes(v.public_key)>>
    \o <<e_u8(3) \o e_tag(CRYPTO_KEYPATH) \o kp>>
    \o OptEntry(IsSome(v.chain_code), e_u8(4) \o e_bytes(Unwrap(v.chain_code)))

CryptoAccount_entry(key, b, pos, f) ==
    CASE key = 1 -> SetField(d_u32(b, pos), f, "master_fingerprint")
      [] key = 2 -> SetField(d_bytes(b, pos), f, "public_key")
      [] key = 3 -> SetField(TaggedKeyPath(b, pos, "expected CRYPTO_KEYPATH tag for key_path"),
                             f, "key_path")
      [] key = 4 -> SetField(d_bytes(b, pos), f, "chain_code")
      [] OTHER -> Skipped(d_skip(b, pos), f)

CryptoAccount_finish(f) ==
    IF ~IsSome(f.master_fingerprint) THEN CErr("missing master_fingerprint")
    ELSE IF ~IsSome(f.public_key) THEN CErr("missing public_key")
    ELSE IF ~IsSome(f.key_path) THEN CErr("missing key_path")
    ELSE COk([variant |-> "CryptoAccount",
              master_fingerprint |-> Unwrap(f.master_fingerprint),
              public_key |-> Unwrap(f.public_key), key_path |-> Unwrap(f.key_path),
              chain_code |-> f.chain_code])

\* ---- hedera.rs
HederaSignRequest_map_size(v) ==
    2 + BoolToInt(IsSome(v.request_id)) + BoolToInt(IsSome(v.account_id))
      + BoolToInt(IsSome(v.origin))
HederaSignRequest_entries(v, kp) ==
    UuidEntry(v.request_id)
    \o <<e_u8(2) \o e_bytes(v.transaction_bytes)>>
    \o <<e_u8(3) \o e_tag(CRYPTO_KEYPATH) \o kp>>
    \o OptEntry(IsSome(v.account_id), e_u8(4) \o e_str(Unwrap(v.account_id)))
    \o OptEntry(IsSome(v.origin), e_u8(5) \o e_str(Unwrap(v.origin)))

HederaSignRequest_entry(key, b, pos, f) ==
    CASE key = 1 -> SetField(RequestIdStrict(b, pos, "expected UUID tag for request_id"),
                             f, "request_id")
      [] key = 2 -> SetField(d_bytes(b, pos), f, "transaction_bytes")
      [] key = 3 -> SetField(TaggedKeyPath(b, pos, "expected CRYPTO_KEYPATH tag for derivation_path"),
                             f, "derivation_path")
      [] key = 4 -> SetField(d_str(b, pos), f, "account_id")
      [] key = 5 -> SetField(d_str(b, pos), f, "origin")
      [] OTHER -> Skipped(d_skip(b, pos), f)

HederaSignRequest_finish(f) ==
    IF ~IsSome(f.transaction_bytes) THEN CErr("missing transaction_bytes")
    ELSE IF ~IsSome(f.derivation_path) THEN CErr("missing derivation_path")
    ELSE COk([variant |-> "HederaSignRequest", request_id |-> f.request_id,
              transaction_bytes |-> Unwrap(f.transaction_bytes),
              derivation_path |-> Unwrap(f.derivation_path),
              account_id |-> f.account_id, origin |-> f.origin])

HederaSignature_map_size(v) ==
    1 + BoolToInt(IsSome(v.request_id)) + BoolToInt(IsSome(v.public_key))
HederaSignature_entries(v) ==
    UuidEntry(v.request_id)
    \o <<e_u8(2) \o e_bytes(v.signature)>>
    \o OptEntry(IsSome(v.public_key), e_u8(3) \o e_bytes(Unwrap(v.public_key)))

HederaSignature_entry(key, b, pos, f) ==
    CASE key = 1 -> SetField(RequestIdStrict(b, pos, "expected UUID tag for request_id"),
                             f, "request_id")
      [] key = 2 -> SetField(d_bytes(b, pos), f, "signature")
      [] key = 3 -> SetField(d_bytes(b, pos), f, "public_key")
      [] OTHER -> Skipped(d_skip(b, pos), f)

HederaSignature_finish(f) ==
    IF ~IsSome(f.signature) THEN CErr("missing signature")
    ELSE COk([variant |-> "HederaSignature", request_id |-> f.request_id,
              signature |-> Unwrap(f.signature), public_key |-> f.public_key])

\* ---- solana.rs
SolanaSignRequest_map_len(v) ==
    2 + BoolToInt(IsSome(v.request_id)) + BoolToInt(IsSome(v.origin))
SolanaSignRequest_entries(v, kp) ==
    UuidEntry(v.request_id)
    \o <<e_u8(2) \o e_bytes(v.transaction)>>
    \o <<e_u8(3) \o e_tag(CRYPTO_KEYPATH) \o kp>>
    \o OptEntry(IsSome(v.origin), e_u8(4) \o e_str(Unwrap(v.origin)))

SolanaSignRequest_entry(key, b, pos, f) ==
    CASE key = 1 -> SetField(RequestIdStrict(b, pos, "expected UUID tag"),
                             f, "request_id")
      [] key = 2 -> SetField(d_bytes(b, pos), f, "transaction")
      [] key = 3 -> SetField(TaggedKeyPath(b, pos, "expected CRYPTO_KEYPATH tag"),
                             f, "derivation_path")
      [] key = 4 -> SetField(d_str(b, pos), f, "origin")
      [] OTHER -> Skipped(d_skip(b, pos), f)

SolanaSignRequest_finish(f) ==
    IF ~IsSome(f.transaction) THEN CErr("missing transaction")
    ELSE IF ~IsSome(f.derivation_path) THEN CErr("missing derivation_path")
    ELSE COk([variant |-> "SolanaSignRequest", request_id |-> f.request_id,
              transaction |-> Unwrap(f.transaction),
              derivation_path |-> Unwrap(f.derivation_path), origin |-> f.origin])

SolanaSignature_map_len(v) ==
    1 + BoolToInt(IsSome(v.request_id)) + BoolToInt(IsSome(v.public_key))
SolanaSignature_entries(v) ==
    UuidEntry(v.request_id)
    \o <<e_u8(2) \o e_bytes(v.signature)>>
    \o OptEntry(IsSome(v.public_key), e_u8(3) \o e_bytes(Unwrap(v.public_key)))

SolanaSignature_entry(key, b, pos, f) ==
    CASE key = 1 -> SetField(RequestIdStrict(b, pos, "expected UUID tag"),
                             f, "request_id")
      [] key = 2 -> SetField(d_bytes(b, pos), f, "signature")
      [] key = 3 -> SetField(d_bytes(b, pos), f, "public_key")
      [] OTHER -> Skipped(d_skip(b, pos), f)

SolanaSignature_finish(f) ==
    IF ~IsSome(f.signature) THEN CErr("missing signature")
    ELSE COk([variant |-> "SolanaSignature", request_id |-> f.request_id,
              signature |-> Unwrap(f.signature), public_key |-> f.public_key])

\* ---- stellar.rs
StellarSignType_to_u32(t) ==
    CASE t = "Transaction" -> 1 [] t = "TransactionHash" -> 2 [] t = "Message" -> 3
StellarSignType_from_u32(value) ==
    IF value = U32(1) THEN COk("Transaction")
    ELSE IF value = U32(2) THEN COk("TransactionHash")
    ELSE IF value = U32(3) THEN COk("Message")
    ELSE CErr("Invalid Stellar sign type: " \o ToStr(ToNat(value)) \o ", expected 1, 2, or 3")

\* StellarSignRequest::map_size (first a variant that does not count the
\* address, for comparison)
StellarSignRequest_map_size_NoAddress(v) ==
    3 + BoolToInt(IsSome(v.request_id)) + BoolToInt(IsSome(v.origin))
StellarSignRequest_map_size(v) ==
    3 + BoolToInt(IsSome(v.request_id)) + BoolToInt(IsSome(v.address))
      + BoolToInt(IsSome(v.origin))
StellarSignRequest_entries(v, kp) ==
    UuidEntry(v.request_id)
    \o <<e_u8(2) \o e_bytes(v.sign_data)>>
    \o <<e_u8(3) \o e_tag(CRYPTO_KEYPATH) \o kp>>
    \o OptEntry(IsSome(v.address), e_u8(4) \o e_bytes(Unwrap(v.address)))
    \o OptEntry(IsSome(v.origin), e_u8(5) \o e_str(Unwrap(v.origin)))
    \o <<e_u8(6) \o e_u32(U32(StellarSignType_to_u32(v.sign_type)))>>

\* sign_type: a u32 that StellarSignType::from_u32 accepts
SignTypeOf(type_val, f) ==
    IF ~type_val.ok THEN type_val
    ELSE IF ~StellarSignType_from_u32(type_val.v).ok
      THEN DErr("invalid sign_type: CBOR error: " \o StellarSignType_from_u32(type_val.v).err,
                type_val.pos)
    ELSE DOk([f EXCEPT !.sign_type = Some(StellarSignType_from_u32(type_val.v).v)],
             type_val.pos)

StellarSignRequest_entry(key, b, pos, f) ==
    CASE key = 1 -> SetField(RequestIdStrict(b, pos, "expected UUID tag for request_id"),
                             f, "request_id")
      [] key = 2 -> SetField(d_bytes(b, pos), f, "sign_data")
      [] key = 3 -> SetField(TaggedKeyPath(b, pos, "expected CRYPTO_KEYPATH tag for derivation_path"),
                             f, "derivation_path")
      [] key = 4 -> SetField(d_bytes(b, pos), f, "address")
      [] key = 5 -> SetField(d_str(b, pos), f, "origin")
      [] key = 6 -> SignTypeOf(d_u32(b, pos), f)
      [] OTHER -> Skipped(d_skip(b, pos), f)

StellarSignRequest_finish(f) ==
    IF ~IsSome(f.sign_data) THEN CErr("missing sign_data")
    ELSE IF ~IsSome(f.derivation_path) THEN CErr("missing derivation_path")
    ELSE IF ~IsSome(f.sign_type) THEN CErr("missing sign_type")
    ELSE COk([variant |-> "StellarSignRequest", request_id |-> f.request_id,
              sign_data |-> Unwrap(f.sign_data),
              derivation_path |-> Unwrap(f.derivation_path),
              sign_type |-> Unwrap(f.sign_type), address |-> f.address, origin |-> f.origin])

StellarSignature_map_size(v) == IF IsSome(v.request_id) THEN 2 ELSE 1
StellarSignature_entries(v) ==
    UuidEntry(v.request_id) \o <<e_u8(2) \o e_bytes(v.signature)>>

StellarSignature_entry(key, b, pos, f) ==
    CASE key = 1 -> SetField(RequestIdStrict(b, pos, "expected UUID tag for request_id"),
                             f, "request_id")
      [] key = 2 -> SetField(d_bytes(b, pos), f, "signature")
      [] OTHER -> Skipped(d_skip(b, pos), f)

StellarSignature_finish(f) ==
    IF ~IsSome(f.signature) THEN CErr("missing signature")
    ELSE COk([variant |-> "StellarSignature", request_id |-> f.request_id,
              signature |-> Unwrap(f.signature)])

\* ---- the nine CBOR codecs side by side, by UR type name

CborTypes ==
    {"crypto-account", "eth-sign-request", "eth-signature", "hbar-sign-request",
     "hbar-signature", "sol-sign-request", "sol-signature", "stellar-sign-request",
     "stellar-signature"}

\* the variant's UR type name (the strings of From<KeystoneMessage>)
TypeName(v) ==
    CASE v.variant = "CryptoAccount" -> "crypto-account"
      [] v.variant = "EthSignRequest" -> "eth-sign-request"
      [] v.variant = "EthSignature" -> "eth-signature"
      [] v.variant = "HederaSignRequest" -> "hbar-sign-request"
      [] v.variant = "HederaSignature" -> "hbar-signature"
      [] v.variant = "SolanaSignRequest" -> "sol-sign-request"
      [] v.variant = "SolanaSignature" -> "sol-signature"
      [] v.variant = "StellarSignRequest" -> "stellar-sign-request"
      [] v.variant = "StellarSignature" -> "stellar-signature"
      [] v.variant = "XrpSignRequest" -> "xrp-sign-request"
      [] v.variant = "XrpSignature" -> "xrp-signature"
      [] OTHER -> v.ur_type

\* the tag a codec writes before, and requires in front of, its map
WireTags(T) ==
    CASE T = "eth-sign-request" -> <<ETH_SIGN_REQUEST>>
      [] T = "eth-signature" -> <<ETH_SIGNATURE>>
      [] T = "sol-sign-request" -> <<SOL_SIGN_REQUEST>>
      [] T = "sol-signature" -> <<SOL_SIGNATURE>>
      [] T = "crypto-keypath" -> <<CRYPTO_KEYPATH>>
      [] OTHER -> <<>>

\* the messages for a wrong leading tag and for an indefinite-length map
WrongTag(T) ==
    CASE T = "eth-sign-request" -> "Expected eth-sign-request tag 401"
      [] T = "eth-signature" -> "Expected eth-signature tag 402"
      [] T = "sol-sign-request" -> "expected sol-sign-request tag"
      [] T = "sol-signature" -> "expected sol-signature tag"
      [] T = "crypto-keypath" -> "Expected crypto-keypath tag 304"
      [] OTHER -> ""
NoLength(T) ==
    CASE T \in {"eth-sign-request", "eth-signature", "crypto-keypath"} ->
           "Expected definite-length map"
      [] T \in {"sol-sign-request", "sol-signature"} -> "expected definite-length map"
      [] T = "crypto-account" -> "expected definite-length map for CryptoAccount"
      [] T = "hbar-sign-request" -> "expected definite-length map for HederaSignRequest"
      [] T = "hbar-signature" -> "expected definite-length map for HederaSignature"
      [] T = "stellar-sign-request" -> "expected definite-length map for StellarSignRequest"
      [] T = "stellar-signature" -> "expected definite-length map for StellarSignature"

\* the name of the field that holds the derivation path, "" when there is none
PathField(T) ==
    CASE T = "crypto-account" -> "key_path"
      [] T \in {"eth-sign-request", "hbar-sign-request", "sol-sign-request",
                "stellar-sign-request"} -> "derivation_path"
      [] OTHER -> ""

\* the map size a value's encoder declares
MapSize(v) ==
    CASE v.variant = "CryptoAccount" -> CryptoAccount_map_size(v)
      [] v.variant = "EthSignRequest" -> EthSignRequest_map_size(v)
      [] v.variant = "EthSignature" -> EthSignature_map_size(v)
      [] v.variant = "HederaSignRequest" -> HederaSignRequest_map_size(v)
      [] v.variant = "HederaSignature" -> HederaSignature_map_size(v)
      [] v.variant = "SolanaSignRequest" -> SolanaSignRequest_map_len(v)
      [] v.variant = "SolanaSignature" -> SolanaSignature_map_len(v)
      [] v.variant = "StellarSignRequest" -> StellarSignRequest_map_size(v)
      [] v.variant = "StellarSignature" -> StellarSignature_map_size(v)

\* the entries a value's encoder writes, `kp' being the encoded derivation path
Entries(v, kp) ==
    CASE v.variant = "CryptoAccount" -> CryptoAccount_entries(v, kp)
      [] v.variant = "EthSignRequest" -> EthSignRequest_entries(v, kp)
      [] v.variant = "EthSignature" -> EthSignature_entries(v)
      [] v.variant = "HederaSignRequest" -> HederaSignRequest_entries(v, kp)
      [] v.variant = "HederaSignature" -> HederaSignature_entries(v)
      [] v.variant = "SolanaSignRequest" -> SolanaSignRequest_entries(v, kp)
      [] v.variant = "SolanaSignature" -> SolanaSignature_entries(v)
      [] v.variant = "StellarSignRequest" -> StellarSignRequest_entries(v, kp)
      [] v.variant = "StellarSignature" -> StellarSignature_entries(v)

KeyPathOf(v) ==
    IF PathField(TypeName(v)) = "" THEN <<>>
    ELSE CryptoKeyPath_encode(v[PathField(TypeName(v))])

\* minicbor::to_vec(value)
to_vec(v) == WriteMap(WireTags(TypeName(v)), MapSize(v), Entries(v, KeyPathOf(v)))

\* the fields a decoder starts with: all None
EmptyFields(T) ==
    CASE T = "crypto-account" ->
           [master_fingerprint |-> None, public_key |-> None, key_path |-> None,
            chain_code |-> None]
      [] T = "eth-sign-request" ->
           [request_id |-> None, sign_data |-> None, data_type |-> None, chain_id |-> None,
            derivation_path |-> None, address |-> None, origin |-> None]
      [] T = "eth-signature" -> [request_id |-> None, signature |-> None, origin |-> None]
      [] T = "hbar-sign-request" ->
           [request_id |-> None, transaction_bytes |-> None, derivation_path |-> None,
            account_id |-> None, origin |-> None]
      [] T = "hbar-signature" -> [request_id |-> None, signature |-> None, public_key |-> None]
      [] T = "sol-sign-request" ->
           [request_id |-> None, transaction |-> None, derivation_path |-> None,
            origin |-> None]
      [] T = "sol-signature" -> [request_id |-> None, signature |-> None, public_key |-> None]
      [] T = "stellar-sign-request" ->
           [request_id |-> None, sign_data |-> None, derivation_path |-> None,
            sign_type |-> None, address |-> None, origin |-> None]
      [] T = "stellar-signature" -> [request_id |-> None, signature |-> None]
      [] T = "crypto-keypath" ->
           [components |-> None, source_fingerprint |-> None, depth |-> None]

Entry(T, key, b, pos, f) ==
    CASE T = "crypto-account" -> CryptoAccount_entry(key, b, pos, f)
      [] T = "eth-sign-request" -> EthSignRequest_entry(key, b, pos, f)
      [] T = "eth-signature" -> EthSignature_entry(key, b, pos, f)
      [] T = "hbar-sign-request" -> HederaSignRequest_entry(key, b, pos, f)
      [] T = "hbar-signature" -> HederaSignature_entry(key, b, pos, f)
      [] T = "sol-sign-request" -> SolanaSignRequest_entry(key, b, pos, f)
      [] T = "sol-signature" -> SolanaSignature_entry(key, b, pos, f)
      [] T = "stellar-sign-request" -> StellarSignRequest_entry(key, b, pos, f)
      [] T = "stellar-signature" -> StellarSignature_entry(key, b, pos, f)
      [] T = "crypto-keypath" -> CryptoKeyPath_entry(key, b, pos, f)

Finish(T, f) ==
    CASE T = "crypto-account" -> CryptoAccount_finish(f)
      [] T = "eth-sign-request" -> EthSignRequest_finish(f)
      [] T = "eth-signature" -> EthSignature_finish(f)
      [] T = "hbar-sign-request" -> HederaSignRequest_finish(f)
      [] T = "hbar-signature" -> HederaSignature_finish(f)
      [] T = "sol-sign-request" -> SolanaSignRequest_finish(f)
      [] T = "sol-signature" -> SolanaSignature_finish(f)
      [] T = "stellar-sign-request" -> StellarSignRequest_finish(f)
      [] T = "stellar-signature" -> StellarSignature_finish(f)
      [] T = "crypto-keypath" -> CryptoKeyPath_finish(f)

\* the key of a map entry: the Ethereum decoders and the path decoder read it
\* with d.u64(), the others with d.u8()
ReadKey(T, b, pos) ==
    IF T \in {"eth-sign-request", "eth-signature", "crypto-keypath"} THEN d_u64(b, pos)
    ELSE d_u8(b, pos)

\* `for _ in 0..map_len { let key = ...; match key { ... } }'
RECURSIVE DecodeFields(_, _, _, _, _)
DecodeRest(T, b, n, r) == IF ~r.ok THEN r ELSE DecodeFields(T, b, r.pos, n - 1, r.v)
DecodeEntry(T, b, n, f, key) ==
    IF ~key.ok THEN key ELSE DecodeRest(T, b, n, Entry(T, KeyNumber(key.v), b, key.pos, f))
DecodeFields(T, b, pos, n, f) ==
    IF n = 0 THEN DOk(f, pos) ELSE DecodeEntry(T, b, n, f, ReadKey(T, b, pos))

\* impl Decode for the type named T: the tag when the type has one, the map
\* header, the entries, then the required fields
FinishAt(r, pos) == IF r.ok THEN DOk(r.v, pos) ELSE DErr(r.err, pos)
Finished(T, f) == IF ~f.ok THEN f ELSE FinishAt(Finish(T, f.v), f.pos)
MapAt(T, b, map_len) ==
    IF ~map_len.ok THEN map_len
    ELSE IF map_len.v = None THEN DErr(NoLength(T), map_len.pos)
    ELSE IF LoopCount(Unwrap(map_len.v)) < 0 THEN DFail(Len(b) + 1)
    ELSE Finished(T, DecodeFields(T, b, map_len.pos, LoopCount(Unwrap(map_len.v)),
                                  EmptyFields(T)))
TaggedMap(T, b, tag) ==
    IF ~tag.ok THEN tag
    ELSE IF tag.v # U64(WireTags(T)[1]) THEN DErr(WrongTag(T), tag.pos)
    ELSE MapAt(T, b, d_map(b, tag.pos))
DecodeMap(T, b, pos) ==
    IF WireTags(T) = <<>> THEN MapAt(T, b, d_map(b, pos)) ELSE TaggedMap(T, b, d_tag(b, pos))

\* X::from_cbor
from_cbor(T, b) == from_bytes(DecodeMap(T, b, 1))

\* ---- xrp.rs: JSON through serde_json
\* (compact objects whose values are strings or null; in a string '"' and '\'
\*  are written behind a '\')

Quote == 34
Backslash == 92

RECURSIVE JsonEscape(_)
JsonEscape(s) ==
    IF s = <<>> THEN <<>>
    ELSE (IF s[1] \in {Quote, Backslash} THEN <<Backslash, s[1]>> ELSE <<s[1]>>)
         \o JsonEscape(Tail(s))
JsonString(s) == <<Quote>> \o JsonEscape(s) \o <<Quote>>

HexDigits == "0123456789abcdef"
HexByte(n) ==
    Ascii(SubSeq(HexDigits, (n \div 16) + 1, (n \div 16) + 1)
          \o SubSeq(HexDigits, (n % 16) + 1, (n % 16) + 1))
\* Uuid as serde writes it for a text format: hyphenated lower-case hex
UuidToText(u) ==
    Flatten([i \in 1..16 |-> (IF i \in {5, 7, 9, 11} THEN Ascii("-") ELSE <<>>) \o HexByte(u[i])])
HexVal(c) ==
    IF c >= 48 /\ c <= 57 THEN c - 48
    ELSE IF c >= 97 /\ c <= 102 THEN c - 87
    ELSE IF c >= 65 /\ c <= 70 THEN c - 55
    ELSE -1
\* Uuid from a text: the hyphenated form or thirty-two hex digits
UuidFromHex(hex) ==
    IF Len(hex) # 32 \/ \E i \in 1..Len(hex) : HexVal(hex[i]) < 0 THEN None
    ELSE Some([i \in 1..16 |-> 16 * HexVal(hex[2 * i - 1]) + HexVal(hex[2 * i])])
UuidFromText(t) ==
    UuidFromHex(IF Len(t) = 36 /\ \A i \in {9, 14, 19, 24} : t[i] = 45
                  THEN SubSeq(t, 1, 8) \o SubSeq(t, 10, 13) \o SubSeq(t, 15, 18)
                       \o SubSeq(t, 20, 23) \o SubSeq(t, 25, 36)
                ELSE t)

\* a member of a JSON object as written: "name":"value"
JsonMember(name, value) == JsonString(Ascii(name)) \o Ascii(":") \o JsonString(value)
JsonObject(members) ==
    Ascii("{")
    \o Flatten([i \in 1..Len(members) |->
                  (IF i > 1 THEN Ascii(",") ELSE <<>>) \o members[i]])
    \o Ascii("}")

\* a JSON string at `pos': its text and the position after the closing quote
RECURSIVE JsonScan(_, _, _)
JsonScan(b, pos, acc) ==
    IF pos > Len(b) \/ b[pos] < 32 THEN DFail(pos)
    ELSE IF b[pos] = Quote THEN DOk(acc, pos + 1)
    ELSE IF b[pos] = Backslash
      THEN IF pos + 1 > Len(b) \/ b[pos + 1] \notin {Quote, Backslash} THEN DFail(pos)
           ELSE JsonScan(b, pos + 2, Append(acc, b[pos + 1]))
    ELSE JsonScan(b, pos + 1, Append(acc, b[pos]))
JsonReadString(b, pos) ==
    IF pos > Len(b) \/ b[pos] # Quote THEN DFail(pos) ELSE JsonScan(b, pos + 1, <<>>)

\* a value: a string (Some) or null (None)
JsonSome(s) == IF s.ok THEN DOk(Some(s.v), s.pos) ELSE s
JsonReadValue(b, pos) ==
    IF pos + 3 <= Len(b) /\ SubSeq(b, pos, pos + 3) = Ascii("null") THEN DOk(None, pos + 4)
    ELSE JsonSome(JsonReadString(b, pos))

\* the members of an object, in the order written: a name, ':', a value, then
\* ',' and the next member or '}' and the end of the input
RECURSIVE JsonMembers(_, _, _)
JsonAfterValue(b, acc, name, value) ==
    IF ~value.ok \/ value.pos > Len(b) THEN DFail(value.pos)
    ELSE IF b[value.pos] = 125
      THEN IF value.pos = Len(b)
             THEN DOk(Append(acc, [name |-> name.v, value |-> value.v]), value.pos + 1)
           ELSE DFail(value.pos)
    ELSE IF b[value.pos] = 44
      THEN JsonMembers(b, value.pos + 1, Append(acc, [name |-> name.v, value |-> value.v]))
    ELSE DFail(value.pos)
JsonAfterName(b, acc, name) ==
    IF ~name.ok \/ name.pos > Len(b) THEN DFail(name.pos)
    ELSE IF b[name.pos] # 58 THEN DFail(name.pos)
    ELSE JsonAfterValue(b, acc, name, JsonReadValue(b, name.pos + 1))
JsonMembers(b, pos, acc) == JsonAfterName(b, acc, JsonReadString(b, pos))
JsonParseObject(b) ==
    IF Len(b) < 2 \/ b[1] # 123 THEN DFail(1)
    ELSE IF b = Ascii("{}") THEN DOk(<<>>, 3)
    ELSE JsonMembers(b, 2, <<>>)

\* the derived Deserialize of a struct: members are matched by name, unknown
\* names are ignored, a name given twice is an error
RECURSIVE JsonCollect(_, _, _)
JsonField(members, names, f, field) ==
    IF field \in DOMAIN f THEN CErr("duplicate field " \o field)
    ELSE JsonCollect(Tail(members), names, f @@ (field :> members[1].value))
JsonCollect(members, names, f) ==
    IF members = <<>> THEN COk(f)
    ELSE IF \E n \in names : Ascii(n) = members[1].name
      THEN JsonField(members, names, f, CHOOSE n \in names : Ascii(n) = members[1].name)
    ELSE JsonCollect(Tail(members), names, f)

\* a required String field, an Option<String> field, an Option<Uuid> field
JsonRequired(f, field) ==
    IF field \notin DOMAIN f THEN CErr("missing field " \o field)
    ELSE IF f[field] = None THEN CErr("invalid type: null, expected a string")
    ELSE COk(Unwrap(f[field]))
JsonOptional(f, field) == IF field \in DOMAIN f THEN COk(f[field]) ELSE COk(None)
JsonOptionalUuid(f, field) ==
    IF field \notin DOMAIN f \/ f[field] = None THEN COk(None)
    ELSE IF IsSome(UuidFromText(Unwrap(f[field]))) THEN COk(UuidFromText(Unwrap(f[field])))
    ELSE CErr("UUID parsing failed")

\* the members serde_json::to_vec writes for XrpSignRequest / XrpSignature
\* (a None field is skipped)
XrpSignRequest_members(v) ==
    OptEntry(IsSome(v.request_id), JsonMember("request_id", UuidToText(Unwrap(v.request_id))))
    \o <<JsonMember("transaction_json", v.transaction_json)>>
    \o <<JsonMember("derivation_path", v.derivation_path)>>
    \o OptEntry(IsSome(v.origin), JsonMember("origin", Unwrap(v.origin)))
XrpSignature_members(v) ==
    OptEntry(IsSome(v.request_id), JsonMember("request_id", UuidToText(Unwrap(v.request_id))))
    \o <<JsonMember("signature", v.signature)>>

EmptyFunction == [x \in {} |-> None]

\* serde_json::from_slice(bytes).map_err(|e| Error::Config(format!("JSON
\* decoding failed: {}", e)))
JsonFailed(err) == CErr("JSON decoding failed: " \o err)

\* XrpSignRequest::from_json_bytes
XrpSignRequest_fields(request_id, transaction_json, derivation_path, origin) ==
    IF ~request_id.ok THEN JsonFailed(request_id.err)
    ELSE IF ~transaction_json.ok THEN JsonFailed(transaction_json.err)
    ELSE IF ~derivation_path.ok THEN JsonFailed(derivation_path.err)
    ELSE COk([variant |-> "XrpSignRequest", request_id |-> request_id.v,
              transaction_json |-> transaction_json.v,
              derivation_path |-> derivation_path.v, origin |-> origin.v])
XrpSignRequest_build(f) ==
    IF ~f.ok THEN JsonFailed(f.err)
    ELSE XrpSignRequest_fields(JsonOptionalUuid(f.v, "request_id"),
                               JsonRequired(f.v, "transaction_json"),
                               JsonRequired(f.v, "derivation_path"),
                               JsonOptional(f.v, "origin"))
XrpSignRequest_visit(obj) ==
    IF ~obj.ok THEN JsonFailed("syntax")
    ELSE XrpSignRequest_build(
             JsonCollect(obj.v, {"request_id", "transaction_json", "derivation_path", "origin"},
                         EmptyFunction))
XrpSignRequest_from_json_bytes(b) == XrpSignRequest_visit(JsonParseObject(b))

\* XrpSignature::from_json_bytes
XrpSignature_fields(request_id, signature) ==
    IF ~request_id.ok THEN JsonFailed(request_id.err)
    ELSE IF ~signature.ok THEN JsonFailed(signature.err)
    ELSE COk([variant |-> "XrpSignature", request_id |-> request_id.v,
              signature |-> signature.v])
XrpSignature_build(f) ==
    IF ~f.ok THEN JsonFailed(f.err)
    ELSE XrpSignature_fields(JsonOptionalUuid(f.v, "request_id"),
                             JsonRequired(f.v, "signature"))
XrpSignature_visit(obj) ==
    IF ~obj.ok THEN JsonFailed("syntax")
    ELSE XrpSignature_build(JsonCollect(obj.v, {"request_id", "signature"}, EmptyFunction))
XrpSignature_from_json_bytes(b) == XrpSignature_visit(JsonParseObject(b))

\* ------------------------------------------------- keystone/types.rs

\* KeystoneMessage::from_ur_type (first a variant that refuses a type it does
\* not know, for comparison)
from_ur_type_Strict(ur_type, data) ==
    IF ur_type \in CborTypes THEN from_cbor(ur_type, data)
    ELSE IF ur_type = "xrp-sign-request" THEN XrpSignRequest_from_json_bytes(data)
    ELSE IF ur_type = "xrp-signature" THEN XrpSignature_from_json_bytes(data)
    ELSE CErr("Unsupported UR type: " \o ur_type)
from_ur_type(ur_type, data) ==
    IF ur_type \in CborTypes THEN from_cbor(ur_type, data)
    ELSE IF ur_type = "xrp-sign-request" THEN XrpSignRequest_from_json_bytes(data)
    ELSE IF ur_type = "xrp-signature" THEN XrpSignature_from_json_bytes(data)
    ELSE COk([variant |-> "Unknown", ur_type |-> ur_type, data |-> data])

\* KeystoneMessage::from_ur_payload, KeystonePayload::message_type
from_ur_payload(payload) == from_ur_type(payload.ur_type, payload.data)
message_type(payload) == from_ur_payload(payload)

\* impl From<&KeystoneMessage> for PayloadEncoding
PayloadEncodingOf(message) ==
    IF message.variant \in {"XrpSignRequest", "XrpSignature"} THEN "Json"
    ELSE IF message.variant = "Unknown" THEN "Binary"
    ELSE "Cbor"

serialize_cbor(ur_type, value) ==
    [ur_type |-> ur_type, data |-> to_vec(value), metadata |-> DefaultMetadata,
     encoding |-> "Cbor"]

serialize_json(ur_type, bytes) ==
    [ur_type |-> ur_type, data |-> bytes, metadata |-> DefaultMetadata, encoding |-> "Json"]

\* impl From<KeystoneMessage> for KeystonePayload
IntoPayload(message) ==
    CASE message.variant = "XrpSignRequest" ->
           serialize_json("xrp-sign-request", JsonObject(XrpSignRequest_members(message)))
      [] message.variant = "XrpSignature" ->
           serialize_json("xrp-signature", JsonObject(XrpSignature_members(message)))
      [] message.variant = "Unknown" ->
           [ur_type |-> message.ur_type, data |-> message.data, metadata |-> DefaultMetadata,
            encoding |-> "Binary"]
      [] OTHER -> serialize_cbor(TypeName(message), message)

\* KeystonePayload::to_ur and from_ur
to_ur(payload) == encode_ur(payload.ur_type, payload.data)
from_ur(text) == decode_ur(text)

\* -------------------------------------------------------- codec inputs

\* the fields of each type in the order of their keys (for the JSON types in
\* the order of declaration), and the required ones
FieldNames(T) ==
    CASE T = "crypto-account" -> <<"master_fingerprint", "public_key", "key_path", "chain_code">>
      [] T = "eth-sign-request" ->
           <<"request_id", "sign_data", "data_type", "chain_id", "derivation_path", "address",
             "origin">>
      [] T = "eth-signature" -> <<"request_id", "signature", "origin">>
      [] T = "hbar-sign-request" ->
           <<"request_id", "transaction_bytes", "derivation_path", "account_id", "origin">>
      [] T = "hbar-signature" -> <<"request_id", "signature", "public_key">>
      [] T = "sol-sign-request" -> <<"request_id", "transaction", "derivation_path", "origin">>
      [] T = "sol-signature" -> <<"request_id", "signature", "public_key">>
      [] T = "stellar-sign-request" ->
           <<"request_id", "sign_data", "derivation_path", "address", "origin", "sign_type">>
      [] T = "stellar-signature" -> <<"request_id", "signature">>
      [] T = "crypto-keypath" -> <<"components", "source_fingerprint", "depth">>
      [] T = "xrp-sign-request" ->
           <<"request_id", "transaction_json", "derivation_path", "origin">>
      [] T = "xrp-signature" -> <<"request_id", "signature">>
RequiredFields(T) ==
    CASE T = "crypto-account" -> {"master_fingerprint", "public_key", "key_path"}
      [] T = "eth-sign-request" -> {"sign_data", "data_type", "derivation_path"}
      [] T = "hbar-sign-request" -> {"transaction_bytes", "derivation_path"}
      [] T = "sol-sign-request" -> {"transaction", "derivation_path"}
      [] T = "stellar-sign-request" -> {"sign_data", "derivation_path", "sign_type"}
      [] T = "crypto-keypath" -> {"components"}
      [] T = "xrp-sign-request" -> {"transaction_json", "derivation_path"}
      [] OTHER -> {"signature"}
OptionalFields(T) == {FieldNames(T)[i] : i \in 1..Len(FieldNames(T))} \ RequiredFields(T)

JsonTypes == {"xrp-sign-request", "xrp-signature"}
KnownTypes == CborTypes \cup JsonTypes

\* i128 values of chain_id: 1, -1, 2^63 and 2^64
TwoTo63 == ZeroExtend(<<128, 0, 0, 0, 0, 0, 0, 0>>, 16)
TwoTo64 == ZeroExtend(<<1, 0, 0, 0, 0, 0, 0, 0, 0>>, 16)
MinusOne == [i \in 1..16 |-> 255]
ChainIds == {ZeroExtend(U64(1), 16), MinusOne, TwoTo63, TwoTo64}

RequestId == [i \in 1..16 |-> 16 * i - 1]

\* derivation paths: m, m/44'/0, m/2147483648 (a plain index with the top bit
\* set, which PathComponent::new and from_str accept), and m/1' with a source
\* fingerprint and a depth
HighIndex == <<128, 0, 0, 0>>
PlainPath == NewKeyPath(<<PathComponent(U32(44), TRUE), PathComponent(U32(0), FALSE)>>)
HighPath == NewKeyPath(<<PathComponent(HighIndex, FALSE)>>)
KeyPaths ==
    {NewKeyPath(<<>>), PlainPath, HighPath,
     [components |-> <<PathComponent(U32(1), TRUE)>>,
      source_fingerprint |-> Some(<<1, 2, 3, 4>>), depth |-> Some(1)],
     [components |-> <<PathComponent(U32(1), TRUE)>>,
      source_fingerprint |-> None, depth |-> Some(2)]}
\* the paths a message carries
MessagePaths == {PlainPath, HighPath}

\* a field that is present when its name is among `present'
Opt(present, name, x) == IF name \in present THEN Some(x) ELSE None

\* a message of the CBOR type T whose optional fields are those in `present'
CborMessage(T, present, path, chain_id) ==
    CASE T = "crypto-account" ->
           [variant |-> "CryptoAccount", master_fingerprint |-> <<18, 52, 86, 120>>,
            public_key |-> <<2, 3>>, key_path |-> path,
            chain_code |-> Opt(present, "chain_code", <<9>>)]
      [] T = "eth-sign-request" ->
           [variant |-> "EthSignRequest", request_id |-> Opt(present, "request_id", RequestId),
            sign_data |-> <<1, 2>>, data_type |-> "TypedData",
            chain_id |-> Opt(present, "chain_id", chain_id), derivation_path |-> path,
            address |-> Opt(present, "address", <<7>>),
            origin |-> Opt(present, "origin", Ascii("mm"))]
      [] T = "eth-signature" ->
           [variant |-> "EthSignature", request_id |-> Opt(present, "request_id", RequestId),
            signature |-> <<5, 6>>, origin |-> Opt(present, "origin", Ascii("ks"))]
      [] T = "hbar-sign-request" ->
           [variant |-> "HederaSignRequest",
            request_id |-> Opt(present, "request_id", RequestId),
            transaction_bytes |-> <<1>>, derivation_path |-> path,
            account_id |-> Opt(present, "account_id", Ascii("0.0.1")),
            origin |-> Opt(present, "origin", Ascii("hp"))]
      [] T = "hbar-signature" ->
           [variant |-> "HederaSignature", request_id |-> Opt(present, "request_id", RequestId),
            signature |-> <<5>>, public_key |-> Opt(present, "public_key", <<2>>)]
      [] T = "sol-sign-request" ->
           [variant |-> "SolanaSignRequest",
            request_id |-> Opt(present, "request_id", RequestId),
            transaction |-> <<1>>, derivation_path |-> path,
            origin |-> Opt(present, "origin", Ascii("ph"))]
      [] T = "sol-signature" ->
           [variant |-> "SolanaSignature", request_id |-> Opt(present, "request_id", RequestId),
            signature |-> <<5>>, public_key |-> Opt(present, "public_key", <<2>>)]
      [] T = "stellar-sign-request" ->
           [variant |-> "StellarSignRequest",
            request_id |-> Opt(present, "request_id", RequestId),
            sign_data |-> <<1>>, derivation_path |-> path, sign_type |-> "TransactionHash",
            address |-> Opt(present, "address", <<7>>),
            origin |-> Opt(present, "origin", Ascii("fr"))]
      [] T = "stellar-signature" ->
           [variant |-> "StellarSignature", request_id |-> Opt(present, "request_id", RequestId),
            signature |-> <<5>>]

\* the XRP messages; the transaction is the JSON text {"a":"\"}
JsonMessage(T, present) ==
    IF T = "xrp-sign-request"
      THEN [variant |-> "XrpSignRequest", request_id |-> Opt(present, "request_id", RequestId),
            transaction_json |-> <<123, 34, 97, 34, 58, 34, 92, 34, 125>>,
            derivation_path |-> Ascii("m/44'/144'/0'/0/0"),
            origin |-> Opt(present, "origin", Ascii("xu"))]
    ELSE [variant |-> "XrpSignature", request_id |-> Opt(present, "request_id", RequestId),
          signature |-> Ascii("3045")]

UnknownMessage(ur_type, data) == [variant |-> "Unknown", ur_type |-> ur_type, data |-> data]
\* type names outside the eleven known ones
UnknownTypes == {"bogus-type", "bytes", "crypto-keypath"}

\* a derivation path on its own
KeyPathValue(p) == [variant |-> "CryptoKeyPath", path |-> p]

\* the values a session may start from, by kind: every known variant with
\* every combination of optional fields, Unknown messages, and bare paths
ValueKinds == KnownTypes \cup {"unknown", "crypto-keypath"}
ValuesOf(T) ==
    IF T = "eth-sign-request"
      THEN {CborMessage(T, present, path, ZeroExtend(U64(1), 16)) :
              present \in SUBSET (OptionalFields(T) \ {"chain_id"}), path \in MessagePaths}
           \cup {CborMessage(T, present \cup {"chain_id"}, PlainPath, chain_id) :
                   present \in SUBSET (OptionalFields(T) \ {"chain_id"}), chain_id \in ChainIds}
    ELSE IF T \in CborTypes
      THEN {CborMessage(T, present, path, ZeroExtend(U64(1), 16)) :
              present \in SUBSET OptionalFields(T),
              path \in IF PathField(T) = "" THEN {PlainPath} ELSE MessagePaths}
    ELSE IF T \in JsonTypes THEN {JsonMessage(T, present) : present \in SUBSET OptionalFields(T)}
    ELSE IF T = "unknown"
      THEN {UnknownMessage(t, d) : t \in UnknownTypes \cup {"eth-signature"},
                                  d \in {<<>>, <<1, 2>>}}
    ELSE {KeyPathValue(p) : p \in KeyPaths}

IsMessage(v) == v.variant # "CryptoKeyPath"
IsCbor(v) ==
    IF v.variant \in {"CryptoKeyPath", "Unknown"} THEN v.variant = "CryptoKeyPath"
    ELSE TypeName(v) \in CborTypes
\* the wire type of a value: a message's UR type name, crypto-keypath for a path
WireType(v) == IF v.variant = "CryptoKeyPath" THEN "crypto-keypath" ELSE TypeName(v)

\* ------------------------------------------------------------------ inputs
Data == SeqsUpTo(Byte, MaxDataLen)
\* every type and payload with a small and a large max_fragment_length, and
\* one request with max_fragment_length 0
Messages ==
    [ur_type : Types, data : Data, max_fragment_len : MaxFragLens]
    \cup {[ur_type |-> "bytes", data |-> <<1>>, max_fragment_len |-> 0]}

\* texts a scanner may also see: not a UR, a whole message of another type,
\* a multi-part envelope whose body is no fountain part, a one-part stream
\* whose fragment is longer than its message and not zero-padded, the second
\* fragment of another sender's two-part stream, and a text with an empty type
NotUrText == [head |-> "not-a-ur", body |-> None]
ForeignSingle == encode_ur("eth-signature", <<1, 1>>)
NotAPart == [head |-> "ur:bytes/1-2/", body |-> Some(BytewordsEncode(<<7>>))]
BadPadding ==
    [head |-> "ur:bytes/1-1/",
     body |-> Some(BytewordsEncode(PartCbor([sequence |-> 1, sequence_count |-> 1,
                                             message_length |-> 1,
                                             checksum |-> Crc32(<<1>>),
                                             data |-> <<1, 1>>])))]
ForeignPart == encode_ur_with_fragments("sol-signature", <<1, 0>>, 1).parts[2]
\* a text with nothing between "ur:" and the first '/', over a valid body
EmptyTypeText == [head |-> "ur:/", body |-> Some(BytewordsEncode(<<1>>))]
ForeignTexts == {NotUrText, ForeignSingle, NotAPart, BadPadding, ForeignPart, EmptyTypeText}

\* ------------------------------------------------------------------- state
VARIABLES
    msg,                  \* the (type, bytes, max_fragment_length) given to MultiPartEncoder::new
    encoder,              \* Some([parts, current_index]), None when new() returned Err
    calls,                \* next_part() calls since construction or the last reset()
    enc_op,               \* the last encoder operation and its argument
    enc_ret,              \* what it returned
    decoder,              \* MultiPartDecoder.decoder: Option<ur::Decoder>
    received_parts,       \* MultiPartDecoder.received_parts: HashSet<String>
    iter_first,           \* the element received_parts.iter() yields first, resolved
                          \* once the accumulator is complete (result() reads it only then)
    single_part_result,   \* MultiPartDecoder.single_part_result
    op,                   \* the last decoder operation, its argument, and whether it
                          \* called the accumulator's receive
    ret,                  \* what it returned
    fed,                  \* k when the decoder has been given exactly the encoder's
                          \* parts 1..k, in that order, since new() / reset(); else -1
    value,                \* the sender's value: a KeystoneMessage or a CryptoKeyPath
    encoded,              \* its encoded form once made: a KeystonePayload, a path's bytes
    ur_text,              \* the text made from it: payload.to_ur(), path.to_string()
    wire,                 \* what the receiver holds
    tamper,               \* how that differs from the encoded form
    cop,                  \* the last codec call
    cret,                 \* what it returned
    metrics,              \* METRICS: None until enable(), then the MetricsState
    last_snapshot,        \* LAST_SNAPSHOT
    http,                 \* the connection handler of the metrics endpoint
    response,             \* the last HTTP response
    scan                  \* scan_keystone: running or returned, the last frame

enc_vars == <<encoder, calls, enc_op, enc_ret>>
dec_vars == <<decoder, received_parts, iter_first, single_part_result, op, ret, fed>>
codec_vars == <<value, encoded, ur_text, wire, tamper, cop, cret>>
transport_vars == <<msg, enc_vars, dec_vars>>
daemon_vars == <<metrics, last_snapshot, http, response, scan>>
vars == <<msg, encoder, calls, enc_op, enc_ret, decoder, received_parts, iter_first,
          single_part_result, op, ret, fed, value, encoded, ur_text, wire, tamper, cop, cret,
          metrics, last_snapshot, http, response, scan>>

\* observation of a decoder call: the operation, its argument, whether it called
\* the accumulator's receive, and whether is_complete() held when it was called
Op(name, arg, acc_invoked, was_complete) ==
    [name |-> name, arg |-> arg, acc_invoked |-> acc_invoked, was_complete |-> was_complete]
\* observation of an encoder call: the operation, its argument, and the cursor
\* when it was called
EncOp(name, index, before) == [name |-> name, index |-> index, before |-> before]

NoEncRet == [part |-> None, all |-> <<>>]

\* the texts the decoder is fed: the encoder's fragments and the foreign texts
Universe ==
    (IF IsSome(encoder) THEN {Unwrap(encoder).parts[k] : k \in 1..Len(Unwrap(encoder).parts)}
     ELSE {}) \cup ForeignTexts

\* MultiPartEncoder::new and MultiPartDecoder::new
TransportInit ==
    /\ msg \in Messages
    /\ encoder = NewEncoder(msg.ur_type, msg.data, msg.max_fragment_len)
    /\ calls = 0
    /\ enc_op = EncOp("new", 0, 0)
    /\ enc_ret = NoEncRet
    /\ decoder = Some(NewAccumulator)
    /\ received_parts = {}
    /\ iter_first = None
    /\ single_part_result = None
    /\ op = Op("new", None, FALSE, FALSE)
    /\ ret = NoRet
    /\ fed = 0

\* no codec call is made in a transport session
CodecIdle ==
    /\ value = [variant |-> "Unknown", ur_type |-> "bytes", data |-> <<>>]
    /\ encoded = None
    /\ ur_text = None
    /\ wire = None
    /\ tamper = [kind |-> "none", field |-> "", key |-> <<>>, nested |-> FALSE]
    /\ cop = "new"
    /\ cret = [ok |-> FALSE, v |-> <<>>, err |-> "no call"]

\* ---- the daemon's state at rest (metrics.rs, lib.rs)

\* a frame of the camera, as scan_once sees it: a QR code with a text, a QR
\* code whose bytes are no UTF-8 text, no QR code, or a capture failure
Frame(kind, text) == [kind |-> kind, text |-> text]
NoOutcome == [ok |-> FALSE, payload |-> None, err |-> ""]
\* scan_keystone before its first frame
ScanStart == [status |-> "running", frame |-> Frame("none", None), outcome |-> NoOutcome]

NoCounters ==
    [total_scans |-> 0, successes |-> 0, failures |-> 0, per_type |-> {}]
NoResponse == [status |-> 0, body |-> NoCounters]

\* the handler of a connection: where it stands, the snapshot it took, and,
\* for the record, what had been counted in the window when the request
\* arrived and whether a tick came since
HttpIdle == [pc |-> "idle", fresh |-> None, arrived |-> NoCounters, ticked |-> FALSE]

\* neither the metrics nor the scan loop take part in a transport or codec
\* session
DaemonIdle ==
    /\ metrics = None
    /\ last_snapshot = None
    /\ http = HttpIdle
    /\ response = NoResponse
    /\ scan = ScanStart

Init == TransportInit /\ CodecIdle /\ DaemonIdle

WasComplete == is_complete(decoder, single_part_result)

\* the return value of insert ignored: every text counts as new
is_new_Always(parts, text) == TRUE

\* HashSet::insert's return value: true when the text was not yet in the set
is_new(parts, text) == text \notin parts

\* whether `text' continues the encoder's parts in generated order
NextInOrder(text) ==
    /\ fed >= 0
    /\ IsSome(encoder)
    /\ fed < Len(Unwrap(encoder).parts)
    /\ text = Unwrap(encoder).parts[fed + 1]

\* MultiPartDecoder::receive(ur_string): what the call does to the decoder
ReceiveStep(text) ==
    /\ text \in received_parts \/ Cardinality(received_parts) < MaxReceived
    /\ received_parts' = received_parts \cup {text}
    /\ fed' = IF NextInOrder(text) THEN fed + 1 ELSE -1
    /\ IF ~is_new(received_parts, text)
       THEN \* already received this part
            /\ ret' = current_progress(decoder, received_parts')
            /\ op' = Op("receive", Some(text), FALSE, WasComplete)
            /\ UNCHANGED <<decoder, iter_first, single_part_result>>
       ELSE /\ IF Cardinality(received_parts') = 1 /\ decode_ur(text).ok
               THEN \* single-part UR
                    /\ single_part_result' = Some(decode_ur(text).payload)
                    /\ ret' = OkProgress([parts_received |-> 1, total_parts |-> Some(1),
                                          percentage |-> 100, complete |-> TRUE])
                    /\ op' = Op("receive", Some(text), FALSE, WasComplete)
                    /\ UNCHANGED decoder
               ELSE IF ~IsSome(decoder)
               THEN /\ ret' = Err
                    /\ op' = Op("receive", Some(text), FALSE, WasComplete)
                    /\ UNCHANGED <<decoder, single_part_result>>
               ELSE LET r == AccReceive(Unwrap(decoder), text)
                    IN  /\ decoder' = Some(r.acc)
                        /\ ret' = IF r.ok THEN current_progress(decoder', received_parts')
                                  ELSE Err
                        /\ op' = Op("receive", Some(text), TRUE, WasComplete)
                        /\ UNCHANGED single_part_result
            /\ IF IsSome(decoder') /\ AccComplete(Unwrap(decoder'))
               THEN \E f \in received_parts' : iter_first' = Some(f)
               ELSE iter_first' = None

\* receive(ur_string) on the session's decoder
Receive(text) ==
    /\ ReceiveStep(text)
    /\ UNCHANGED <<msg, codec_vars, daemon_vars, enc_vars>>

\* MultiPartDecoder::result()
Result ==
    /\ ret' = result(decoder, received_parts, iter_first, single_part_result)
    /\ op' = Op("result", None, FALSE, WasComplete)
    /\ UNCHANGED <<msg, codec_vars, daemon_vars, enc_vars, decoder, received_parts, iter_first, single_part_result, fed>>

\* reset() that forgets to drop the cached single-part payload
Reset_KeepsCache ==
    /\ decoder' = Some(NewAccumulator)
    /\ received_parts' = {}
    /\ iter_first' = None
    /\ op' = Op("reset", None, FALSE, WasComplete)
    /\ ret' = NoRet
    /\ fed' = 0
    /\ UNCHANGED <<msg, codec_vars, daemon_vars, enc_vars, single_part_result>>

\* MultiPartDecoder::reset()
Reset ==
    /\ decoder' = Some(NewAccumulator)
    /\ received_parts' = {}
    /\ iter_first' = None
    /\ single_part_result' = None
    /\ op' = Op("reset", None, FALSE, WasComplete)
    /\ ret' = NoRet
    /\ fed' = 0
    /\ UNCHANGED <<msg, codec_vars, daemon_vars, enc_vars>>

ReceiveAny == \E text \in Universe : Receive(text)

\* one decoding session: any texts in any order, result() and reset() at any time
Next == ReceiveAny \/ Result \/ Reset

Spec == Init /\ [][Next]_vars

\* a cursor that stops at the last part instead of wrapping
next_index_NoWrap(e) == Min(e.current_index + 1, Len(e.parts) - 1)

\* MultiPartEncoder::next_part(): the part under the cursor, then the cursor
\* advances modulo the number of parts
next_index(e) == (e.current_index + 1) % Len(e.parts)

NextPart ==
    /\ IsSome(encoder)
    /\ calls < MaxCalls
    /\ enc_ret' = [part |-> Some(EncodeResult(Unwrap(encoder), Unwrap(encoder).current_index)),
                   all |-> <<>>]
    /\ encoder' = Some([Unwrap(encoder) EXCEPT !.current_index = next_index(Unwrap(encoder))])
    /\ calls' = calls + 1
    /\ enc_op' = EncOp("next_part", 0, Unwrap(encoder).current_index)
    /\ UNCHANGED <<msg, codec_vars, daemon_vars, dec_vars>>

\* MultiPartEncoder::part_at(index)
PartAt(index) ==
    /\ IsSome(encoder)
    /\ enc_ret' = [part |-> part_at(Unwrap(encoder), index), all |-> <<>>]
    /\ enc_op' = EncOp("part_at", index, Unwrap(encoder).current_index)
    /\ UNCHANGED <<msg, codec_vars, daemon_vars, dec_vars, encoder, calls>>

\* MultiPartEncoder::all_parts()
AllParts ==
    /\ IsSome(encoder)
    /\ enc_ret' = [part |-> None, all |-> all_parts(Unwrap(encoder))]
    /\ enc_op' = EncOp("all_parts", 0, Unwrap(encoder).current_index)
    /\ UNCHANGED <<msg, codec_vars, daemon_vars, dec_vars, encoder, calls>>

\* reset() that clears the call count but leaves the cursor where it is
EncReset_NoRewind ==
    /\ IsSome(encoder)
    /\ calls' = 0
    /\ enc_ret' = NoEncRet
    /\ enc_op' = EncOp("reset", 0, Unwrap(encoder).current_index)
    /\ UNCHANGED <<msg, codec_vars, daemon_vars, dec_vars, encoder>>

\* MultiPartEncoder::reset()
EncReset ==
    /\ IsSome(encoder)
    /\ encoder' = Some([Unwrap(encoder) EXCEPT !.current_index = 0])
    /\ calls' = 0
    /\ enc_ret' = NoEncRet
    /\ enc_op' = EncOp("reset", 0, Unwrap(encoder).current_index)
    /\ UNCHANGED <<msg, codec_vars, daemon_vars, dec_vars>>

PartAtAny == \E index \in 0..MaxIndex : PartAt(index)

\* one broadcast session: the encoder's operations in any order
NextEnc == NextPart \/ PartAtAny \/ AllParts \/ EncReset

SpecEnc == Init /\ [][NextEnc]_vars

\* ------------------------------------------------------ a codec session
\* A sender turns a value into its encoded form (a message into a payload, a
\* path into CBOR bytes or text); the encoded form reaches the receiver as it
\* is, through a UR text, under another type name, or as a map a newer or
\* older peer would have written (one unknown entry more, one entry less);
\* the receiver decodes what it holds.

NoTamper == [kind |-> "none", field |-> "", key |-> <<>>, nested |-> FALSE]
NoCRet == [ok |-> FALSE, v |-> <<>>, err |-> "no call"]

\* the entries the sender's encoder writes for a value, the size it declares,
\* and the bytes for a given size and entries
SenderEntries(v) ==
    CASE v.variant = "CryptoKeyPath" -> CryptoKeyPath_entries(v.path)
      [] v.variant = "XrpSignRequest" -> XrpSignRequest_members(v)
      [] v.variant = "XrpSignature" -> XrpSignature_members(v)
      [] OTHER -> Entries(v, KeyPathOf(v))
DeclaredSize(v) ==
    CASE v.variant = "CryptoKeyPath" -> CryptoKeyPath_map_size(v.path)
      [] v.variant \in {"XrpSignRequest", "XrpSignature"} -> Len(SenderEntries(v))
      [] OTHER -> MapSize(v)
Written(v, size, entries) ==
    CASE v.variant = "CryptoKeyPath" -> WriteMap(<<CRYPTO_KEYPATH>>, size, entries)
      [] v.variant \in {"XrpSignRequest", "XrpSignature"} -> JsonObject(entries)
      [] OTHER -> WriteMap(WireTags(TypeName(v)), size, entries)

InsertAt(s, i, e) == SubSeq(s, 1, i - 1) \o <<e>> \o SubSeq(s, i, Len(s))
RemoveAt(s, i) == SubSeq(s, 1, i - 1) \o SubSeq(s, i + 1, Len(s))

\* keys no decoder knows: 99, 256 and -1; the value under such a key is the
\* array [1, "x"]
UnknownKeys == {e_u8(99), e_u64(U64(256)), e_i64(Not(U64(0)))}
ExtraEntry(key) == key \o e_array(2) \o e_u8(1) \o e_str(Ascii("x"))

\* the field an entry holds: a CBOR entry starts with its key, a JSON member
\* with its name
FieldOfEntry(T, entry) ==
    IF T \in JsonTypes
      THEN CHOOSE n \in {FieldNames(T)[i] : i \in 1..Len(FieldNames(T))} :
             Ascii(n) = JsonReadString(entry, 1).v
    ELSE FieldNames(T)[entry[1]]

\* the sender's map with one unknown entry before entry i / without entry i
InjectedData(v, i, key) ==
    Written(v, DeclaredSize(v) + 1, InsertAt(SenderEntries(v), i, ExtraEntry(key)))
DroppedData(v, i) == Written(v, DeclaredSize(v) - 1, RemoveAt(SenderEntries(v), i))
\* the same inside the derivation path a message carries
PathOf(v) == v[PathField(TypeName(v))]
NestedInjectedData(v, j, key) ==
    WriteMap(WireTags(TypeName(v)), MapSize(v),
             Entries(v, InjectedData(KeyPathValue(PathOf(v)), j, key)))
NestedDroppedData(v, j) ==
    WriteMap(WireTags(TypeName(v)), MapSize(v),
             Entries(v, DroppedData(KeyPathValue(PathOf(v)), j)))
CarriesPath(v) == v.variant \notin {"CryptoKeyPath", "Unknown"} /\ PathField(TypeName(v)) # ""

\* the values a peer may put where a request carries its kind: the valid
\* discriminants and some that no variant has
DiscriminantValues == {0, 1, 2, 3, 4, 5, 99}
DiscriminantField(v) ==
    CASE v.variant = "EthSignRequest" -> "data_type"
      [] v.variant = "StellarSignRequest" -> "sign_type"
      [] OTHER -> ""
DiscriminantEntry(v, n) ==
    IF v.variant = "EthSignRequest" THEN e_u64(U64(3)) \o e_u8(n)
    ELSE e_u8(6) \o e_u32(U32(n))
\* the sender's map with the value n under data_type / sign_type
RetypedEntries(v, entries, n) ==
    [i \in 1..Len(entries) |->
        IF FieldOfEntry(WireType(v), entries[i]) = DiscriminantField(v)
          THEN DiscriminantEntry(v, n)
        ELSE entries[i]]
RetypedData(v, n) == Written(v, DeclaredSize(v), RetypedEntries(v, SenderEntries(v), n))

\* what the receiver does with what it holds: message_type() on a payload,
\* cbor::from_bytes::<CryptoKeyPath> on a path's bytes
Decode(v, w) ==
    IF v.variant = "CryptoKeyPath" THEN from_bytes(CryptoKeyPath_decode(w.data, 1))
    ELSE message_type(w)

\* the sender and the receiver start with nothing encoded or received; in a
\* session each call is made once, the sender's before the receiver's
InitCodec ==
    /\ msg = [ur_type |-> "bytes", data |-> <<>>, max_fragment_len |-> 1]
    /\ TransportInit
    /\ \E T \in ValueKinds : value \in ValuesOf(T)
    /\ encoded = None
    /\ ur_text = None
    /\ wire = None
    /\ tamper = NoTamper
    /\ cop = "new"
    /\ cret = NoCRet
    /\ DaemonIdle

\* KeystonePayload::from(message)
Into ==
    /\ IsMessage(value)
    /\ encoded = None
    /\ encoded' = Some(IntoPayload(value))
    /\ cop' = "into"
    /\ cret' = COk(IntoPayload(value))
    /\ UNCHANGED <<value, ur_text, wire, tamper, transport_vars, daemon_vars>>

\* cbor::to_bytes(&path)
PathEncode ==
    /\ ~IsMessage(value)
    /\ encoded = None
    /\ encoded' = Some([data |-> CryptoKeyPath_encode(value.path)])
    /\ cop' = "encode"
    /\ cret' = COk(CryptoKeyPath_encode(value.path))
    /\ UNCHANGED <<value, ur_text, wire, tamper, transport_vars, daemon_vars>>

\* path.to_string()
PathToString ==
    /\ ~IsMessage(value)
    /\ ur_text = None
    /\ ur_text' = Some(to_string(value.path))
    /\ cop' = "to_string"
    /\ cret' = COk(to_string(value.path))
    /\ UNCHANGED <<value, encoded, wire, tamper, transport_vars, daemon_vars>>

\* CryptoKeyPath::from_str(text) on the text to_string() gave
PathFromStr ==
    /\ ~IsMessage(value)
    /\ IsSome(ur_text)
    /\ cop' = "from_str"
    /\ cret' = from_str(Unwrap(ur_text))
    /\ UNCHANGED <<value, encoded, ur_text, wire, tamper, transport_vars, daemon_vars>>

\* payload.to_ur()
ToUr ==
    /\ IsMessage(value)
    /\ IsSome(encoded)
    /\ ur_text = None
    /\ wire = None
    /\ ur_text' = Some(to_ur(Unwrap(encoded)))
    /\ cop' = "to_ur"
    /\ cret' = COk(to_ur(Unwrap(encoded)))
    /\ UNCHANGED <<value, encoded, wire, tamper, transport_vars, daemon_vars>>

\* KeystonePayload::from_ur(text): the receiver holds the payload it returns
Received(r) == IF r.ok THEN Some(r.payload) ELSE None
Returned(r) == IF r.ok THEN COk(r.payload) ELSE CErr("UR parse error")
FromUr ==
    /\ wire = None
    /\ IsMessage(value)
    /\ IsSome(ur_text)
    /\ wire' = Received(from_ur(Unwrap(ur_text)))
    /\ cret' = Returned(from_ur(Unwrap(ur_text)))
    /\ tamper' = NoTamper
    /\ cop' = "from_ur"
    /\ UNCHANGED <<value, encoded, ur_text, transport_vars, daemon_vars>>

\* the encoded form reaches the receiver as it is (the receiver is handed one
\* thing in a session)
Deliver ==
    /\ wire = None
    /\ IsSome(encoded)
    /\ wire' = encoded
    /\ tamper' = NoTamper
    /\ cop' = "deliver"
    /\ cret' = NoCRet
    /\ UNCHANGED <<value, encoded, ur_text, transport_vars, daemon_vars>>

\* the payload's bytes reach the receiver under another type name
Relabel(t) ==
    /\ wire = None
    /\ IsMessage(value)
    /\ IsSome(encoded)
    /\ wire' = Some([Unwrap(encoded) EXCEPT !.ur_type = t])
    /\ tamper' = [NoTamper EXCEPT !.kind = "relabel"]
    /\ cop' = "relabel"
    /\ cret' = NoCRet
    /\ UNCHANGED <<value, encoded, ur_text, transport_vars, daemon_vars>>

\* a peer's map with one unknown entry before entry i
Inject(i, key) ==
    /\ wire = None
    /\ IsCbor(value)
    /\ IsSome(encoded)
    /\ wire' = Some([Unwrap(encoded) EXCEPT !.data = InjectedData(value, i, key)])
    /\ tamper' = [kind |-> "inject", key |-> key, nested |-> FALSE,
                  field |-> FieldOfEntry(WireType(value), SenderEntries(value)[i])]
    /\ cop' = "inject"
    /\ cret' = NoCRet
    /\ UNCHANGED <<value, encoded, ur_text, transport_vars, daemon_vars>>

\* the same inside the derivation path of a message
NestedInject(j, key) ==
    /\ wire = None
    /\ CarriesPath(value)
    /\ IsSome(encoded)
    /\ wire' = Some([Unwrap(encoded) EXCEPT !.data = NestedInjectedData(value, j, key)])
    /\ tamper' = [kind |-> "inject", key |-> key, nested |-> TRUE,
                  field |-> FieldOfEntry("crypto-keypath",
                                         CryptoKeyPath_entries(PathOf(value))[j])]
    /\ cop' = "inject"
    /\ cret' = NoCRet
    /\ UNCHANGED <<value, encoded, ur_text, transport_vars, daemon_vars>>

\* a peer's map without entry i
Drop(i) ==
    /\ wire = None
    /\ value.variant # "Unknown"
    /\ IsSome(encoded)
    /\ wire' = Some([Unwrap(encoded) EXCEPT !.data = DroppedData(value, i)])
    /\ tamper' = [kind |-> "drop", key |-> <<>>, nested |-> FALSE,
                  field |-> FieldOfEntry(WireType(value), SenderEntries(value)[i])]
    /\ cop' = "drop"
    /\ cret' = NoCRet
    /\ UNCHANGED <<value, encoded, ur_text, transport_vars, daemon_vars>>

\* the same inside the derivation path of a message
NestedDrop(j) ==
    /\ wire = None
    /\ CarriesPath(value)
    /\ IsSome(encoded)
    /\ wire' = Some([Unwrap(encoded) EXCEPT !.data = NestedDroppedData(value, j)])
    /\ tamper' = [kind |-> "drop", key |-> <<>>, nested |-> TRUE,
                  field |-> FieldOfEntry("crypto-keypath",
                                         CryptoKeyPath_entries(PathOf(value))[j])]
    /\ cop' = "drop"
    /\ cret' = NoCRet
    /\ UNCHANGED <<value, encoded, ur_text, transport_vars, daemon_vars>>

\* a peer's map whose data_type / sign_type entry carries the value n
Retype(n) ==
    /\ wire = None
    /\ DiscriminantField(value) # ""
    /\ IsSome(encoded)
    /\ wire' = Some([Unwrap(encoded) EXCEPT !.data = RetypedData(value, n)])
    /\ tamper' = [kind |-> "retype", key |-> <<n>>, nested |-> FALSE,
                  field |-> DiscriminantField(value)]
    /\ cop' = "retype"
    /\ cret' = NoCRet
    /\ UNCHANGED <<value, encoded, ur_text, transport_vars, daemon_vars>>

\* payload.message_type() / cbor::from_bytes on what the receiver holds
DecodeWire ==
    /\ IsSome(wire)
    /\ cop # "decode"
    /\ cop' = "decode"
    /\ cret' = Decode(value, Unwrap(wire))
    /\ UNCHANGED <<value, encoded, ur_text, wire, tamper, transport_vars, daemon_vars>>

RelabelAny == \E t \in UnknownTypes \cup {"eth-signature"} : Relabel(t)
EntryCount == IF value.variant = "Unknown" THEN 0 ELSE Len(SenderEntries(value))
InjectAny == \E i \in 1..EntryCount, key \in UnknownKeys : Inject(i, key)
DropAny == \E i \in 1..EntryCount : Drop(i)
PathEntryCount ==
    IF CarriesPath(value) THEN Len(CryptoKeyPath_entries(PathOf(value))) ELSE 0
NestedInjectAny == \E j \in 1..PathEntryCount, key \in UnknownKeys : NestedInject(j, key)
NestedDropAny == \E j \in 1..PathEntryCount : NestedDrop(j)
RetypeAny == \E n \in DiscriminantValues : Retype(n)

\* one session: the sender's and the receiver's calls, and one delivery
NextCodec ==
    \/ Into \/ PathEncode \/ PathToString \/ PathFromStr \/ ToUr \/ FromUr
    \/ Deliver \/ RelabelAny \/ InjectAny \/ NestedInjectAny \/ DropAny \/ NestedDropAny
    \/ RetypeAny \/ DecodeWire

SpecCodec == InitCodec /\ [][NextCodec]_vars


\* ------------------------------------------------------------ metrics.rs
\* The metrics singleton, the periodic reporting task and the HTTP endpoint.
\* Time is not modelled: a tick of the reporting task may come at any moment
\* once the task is spawned.  The state is the part record() writes: the
\* fields of the clock (last_reset, elapsed), of record_frame_interval and of
\* record_backpressure are left out.  Durations given to record() are whole
\* milliseconds.

MaxScans == 2            \* most scans recorded in one window
MetricTypes == {"eth-sign"}
Durations == {125}

\* MetricsState::new
NewMetricsState ==
    [total_scans |-> 0, successes |-> 0, failures |-> 0, success_duration |-> 0,
     per_type |-> {}]

\* TypeCounters::default under a type name
NewTypeCounters(kind) ==
    [ur_type |-> kind, successes |-> 0, failures |-> 0, success_duration |-> 0]

\* per_type.entry(kind).or_insert_with(default), then the counters of the
\* outcome (e is the entry before the call)
Counted(e, duration, success) ==
    IF success
      THEN [e EXCEPT !.successes = @ + 1, !.success_duration = @ + duration]
    ELSE [e EXCEPT !.failures = @ + 1]
EntryOf(per_type, kind) ==
    IF \E e \in per_type : e.ur_type = kind
      THEN CHOOSE e \in per_type : e.ur_type = kind
    ELSE NewTypeCounters(kind)
CountedByType(per_type, duration, success, ur_type) ==
    IF ~IsSome(ur_type) THEN per_type
    ELSE {e \in per_type : e.ur_type # Unwrap(ur_type)}
         \cup {Counted(EntryOf(per_type, Unwrap(ur_type)), duration, success)}

\* MetricsInner::record
record(state, duration, success, ur_type) ==
    [state EXCEPT
       !.total_scans = @ + 1,
       !.successes = IF success THEN @ + 1 ELSE @,
       !.success_duration = IF success THEN @ + duration ELSE @,
       !.failures = IF success THEN @ ELSE @ + 1,
       !.per_type = CountedByType(@, duration, success, ur_type)]

\* MetricsState::clone_snapshot: the counters as they stand
clone_snapshot(state) ==
    [total_scans |-> state.total_scans, successes |-> state.successes,
     failures |-> state.failures, success_duration |-> state.success_duration,
     per_type |-> state.per_type]

\* MetricsState::snapshot_and_reset: the snapshot is clone_snapshot's, and
\* the window starts again (per_type is drained)
AfterReset(state) ==
    [state EXCEPT
       !.total_scans = 0, !.successes = 0, !.failures = 0, !.success_duration = 0,
       !.per_type = {}]

\* snapshot_to_http: the counters of the response body (the rates and
\* averages are computed from these)
snapshot_to_http(snapshot) ==
    [total_scans |-> snapshot.total_scans, successes |-> snapshot.successes,
     failures |-> snapshot.failures,
     per_type |-> {[ur_type |-> e.ur_type, successes |-> e.successes,
                    failures |-> e.failures] : e \in snapshot.per_type}]

Ok200(snapshot) == [status |-> 200, body |-> snapshot_to_http(snapshot)]
NoContent204 == [status |-> 204, body |-> NoCounters]

InitMetrics ==
    /\ msg = [ur_type |-> "bytes", data |-> <<>>, max_fragment_len |-> 1]
    /\ TransportInit
    /\ CodecIdle
    /\ DaemonIdle

\* metrics::enable: METRICS.get_or_init, and the reporting task is spawned
\* with the first call
Enable ==
    /\ metrics' = IF IsSome(metrics) THEN metrics ELSE Some(NewMetricsState)
    /\ UNCHANGED <<last_snapshot, http, response, scan, transport_vars, codec_vars>>

\* metrics::record: nothing before enable()
Record(duration, success, ur_type) ==
    /\ IsSome(metrics) => Unwrap(metrics).total_scans < MaxScans
    /\ metrics' = IF IsSome(metrics)
                    THEN Some(record(Unwrap(metrics), duration, success, ur_type))
                  ELSE metrics
    /\ UNCHANGED <<last_snapshot, http, response, scan, transport_vars, codec_vars>>

\* one tick of MetricsInner::run: snapshot_and_reset, store_snapshot
Tick ==
    /\ IsSome(metrics)
    /\ last_snapshot' = Some(clone_snapshot(Unwrap(metrics)))
    /\ metrics' = Some(AfterReset(Unwrap(metrics)))
    /\ http' = [http EXCEPT !.ticked = TRUE]
    /\ UNCHANGED <<response, scan, transport_vars, codec_vars>>

\* what the window has counted, as a response would show it
Counted_now ==
    IF IsSome(metrics) THEN snapshot_to_http(clone_snapshot(Unwrap(metrics))) ELSE NoCounters

\* handle_connection: the request has been read
Arrive ==
    /\ http.pc = "idle"
    /\ http' = [pc |-> "lookup", fresh |-> None, arrived |-> Counted_now, ticked |-> FALSE]
    /\ response' = NoResponse
    /\ UNCHANGED <<metrics, last_snapshot, scan, transport_vars, codec_vars>>

\* latest_snapshot(): the stored snapshot is served when there is one
Lookup ==
    /\ http.pc = "lookup"
    /\ IF IsSome(last_snapshot)
         THEN /\ response' = Ok200(Unwrap(last_snapshot))
              /\ http' = [http EXCEPT !.pc = "idle"]
       ELSE /\ response' = response
            /\ http' = [http EXCEPT !.pc = "fallback"]
    /\ UNCHANGED <<metrics, last_snapshot, scan, transport_vars, codec_vars>>

\* snapshot_fallback(): the current counters when metrics are enabled, else
\* 204 No Content
Fallback ==
    /\ http.pc = "fallback"
    /\ IF IsSome(metrics)
         THEN /\ http' = [http EXCEPT !.pc = "store",
                                      !.fresh = Some(clone_snapshot(Unwrap(metrics)))]
              /\ response' = response
       ELSE /\ http' = [http EXCEPT !.pc = "idle"]
            /\ response' = NoContent204
    /\ UNCHANGED <<metrics, last_snapshot, scan, transport_vars, codec_vars>>

\* store_snapshot(fresh), and the response is written
Store ==
    /\ http.pc = "store"
    /\ last_snapshot' = http.fresh
    /\ response' = Ok200(Unwrap(http.fresh))
    /\ http' = [http EXCEPT !.pc = "idle", !.fresh = None]
    /\ UNCHANGED <<metrics, scan, transport_vars, codec_vars>>

RecordAny ==
    \E duration \in Durations, success \in BOOLEAN,
       ur_type \in {None} \cup {Some(t) : t \in MetricTypes} :
        Record(duration, success, ur_type)

\* the daemon: scans are recorded, the reporting task ticks, and requests are
\* served one at a time
NextMetrics ==
    \/ Enable \/ RecordAny \/ Tick
    \/ Arrive \/ Lookup \/ Fallback \/ Store

SpecMetrics == InitMetrics /\ [][NextMetrics]_vars

\* ------------------------------------------------ lib.rs: scan_keystone
\* The loop owns a MultiPartDecoder (the decoder fields of this module) and
\* looks at one frame per iteration.

\* texts whose bytewords checksum does not match: a damaged single-part UR
\* and a damaged fragment
CorruptSingle == [head |-> "ur:bytes/", body |-> Some([bytes |-> <<1>>, crc |-> Crc32(<<0>>)])]
CorruptPart == [head |-> "ur:bytes/1-2/", body |-> Some([bytes |-> <<7>>, crc |-> Crc32(<<0>>)])]
ScanTexts == Universe \cup {CorruptSingle, CorruptPart}
Frames ==
    {Frame("text", Some(t)) : t \in ScanTexts}
    \cup {Frame("binary", None), Frame("none", None), Frame("error", None)}

ScanErr(err) == [ok |-> FALSE, payload |-> None, err |-> err]
ScanOk(payload) == [ok |-> TRUE, payload |-> Some(payload), err |-> ""]

\* scan_once: capture_frame, then QrDecoder::decode (qr is the QrPayload's
\* text, None when its bytes are no UTF-8 text)
scan_once(frame) ==
    IF frame.kind = "error" THEN [ok |-> FALSE, qr |-> None, err |-> "Camera"]
    ELSE IF frame.kind = "none" THEN [ok |-> FALSE, qr |-> None, err |-> "NoQrCodeFound"]
    ELSE [ok |-> TRUE, qr |-> frame.text, err |-> ""]

\* impl TryFrom<QrPayload> for KeystonePayload
try_from(qr) ==
    IF ~IsSome(qr) THEN ScanErr("InvalidKeystonePayload")
    ELSE IF ~StartsWith(Unwrap(qr).head, "ur:") THEN ScanErr("InvalidKeystonePayload")
    ELSE IF from_ur(Unwrap(qr)).ok THEN ScanOk(from_ur(Unwrap(qr)).payload)
    ELSE ScanErr("UrParse")

\* the frame's text goes to multipart_decoder.receive: try_from failed on a
\* text that starts with "ur:"
GoesToDecoder(frame) ==
    /\ scan_once(frame).ok
    /\ ~try_from(scan_once(frame).qr).ok
    /\ IsSome(scan_once(frame).qr)
    /\ StartsWith(Unwrap(scan_once(frame).qr).head, "ur:")

\* how an iteration ends that did not call the decoder: with the payload,
\* with the capture error, or with another turn of the loop
Turn(frame) == [status |-> "running", frame |-> frame, outcome |-> NoOutcome]
Return(frame, outcome) == [status |-> "returned", frame |-> frame, outcome |-> outcome]
WithoutDecoder(frame) ==
    IF ~scan_once(frame).ok
      THEN IF scan_once(frame).err = "NoQrCodeFound" THEN Turn(frame)
           ELSE Return(frame, ScanErr(scan_once(frame).err))
    ELSE IF try_from(scan_once(frame).qr).ok
      THEN Return(frame, try_from(scan_once(frame).qr))
    ELSE Turn(frame)

\* how an iteration ends that called receive (progress is what it returned,
\* finished what result() then says)
AfterReceive(frame, progress, finished) ==
    IF progress.ok /\ Unwrap(progress.progress).complete /\ finished.ok
      THEN Return(frame, ScanOk(Unwrap(finished.payload)))
    ELSE Turn(frame)

\* one iteration of the loop in scan_keystone
ScanFrame(frame) ==
    /\ scan.status = "running"
    /\ IF GoesToDecoder(frame)
         THEN /\ ReceiveStep(Unwrap(frame.text))
              /\ scan' = AfterReceive(frame, ret',
                                      result(decoder', received_parts', iter_first',
                                             single_part_result'))
       ELSE /\ scan' = WithoutDecoder(frame)
            /\ UNCHANGED dec_vars
    /\ UNCHANGED <<msg, enc_vars, codec_vars, metrics, last_snapshot, http, response>>

ScanAny == \E frame \in Frames : ScanFrame(frame)

\* a scan: frames in any order until the loop returns
NextScan == ScanAny

SpecScan == Init /\ [][NextScan]_vars

\* ------------------------------------------------------------------ claims

Parts == IF IsSome(encoder) THEN Unwrap(encoder).parts ELSE <<>>

\* the encoder's input did not fit one part: its single-part text is longer
\* than max_fragment_length
IsMultipartInput ==
    /\ IsSome(encoder)
    /\ TextLen(encode_ur(msg.ur_type, msg.data)) > msg.max_fragment_len

NowComplete == is_complete(decoder, single_part_result)
NowResult == result(decoder, received_parts, iter_first, single_part_result)
DecoderFields == <<decoder, received_parts, iter_first, single_part_result>>

\* C1: multi-part round trip.  When the input needs several parts and a fresh
\* decoder is given the encoder's parts in generated order, the decoder is
\* complete only once all parts are in, and then result() carries the original
\* bytes and the original type.
C1_RoundTrip ==
    (IsMultipartInput /\ fed >= 0) =>
        /\ NowComplete => fed = Len(Parts)
        /\ fed = Len(Parts) =>
              /\ NowComplete
              /\ NowResult.ok
              /\ Unwrap(NowResult.payload).data = msg.data
              /\ Unwrap(NowResult.payload).ur_type = msg.ur_type

\* the self-contained single-part URs among the texts, with what they carry
SingleTexts ==
    {[text |-> ForeignSingle, ur_type |-> "eth-signature", data |-> <<1, 1>>]}
    \cup (IF IsSome(encoder) /\ ~IsMultipartInput
          THEN {[text |-> Parts[1], ur_type |-> msg.ur_type, data |-> msg.data]}
          ELSE {})

\* C2: single-part fast path.  The first text given to an empty decoder, when
\* it is a self-contained single-part UR, is answered with parts_received 1,
\* percentage 100, complete; is_complete() holds, the accumulator was not
\* called nor changed, and result() is the payload with the original type and
\* bytes.
C2_SinglePartFastPath ==
    [][\A s \in SingleTexts :
         (received_parts = {} /\ op'.name = "receive" /\ op'.arg = Some(s.text)) =>
            /\ ret'.ok
            /\ Unwrap(ret'.progress).parts_received = 1
            /\ Unwrap(ret'.progress).percentage = 100
            /\ Unwrap(ret'.progress).complete
            /\ is_complete(decoder', single_part_result')
            /\ ~op'.acc_invoked
            /\ decoder' = decoder
            /\ LET r == result(decoder', received_parts', iter_first', single_part_result')
               IN  /\ r.ok
                   /\ Unwrap(r.payload).ur_type = s.ur_type
                   /\ Unwrap(r.payload).data = s.data]_vars

C2_Witness ==
    /\ op.name = "receive"
    /\ op.arg = Some(ForeignSingle)
    /\ received_parts = {ForeignSingle}
    /\ ret.ok
    /\ Unwrap(ret.progress).complete
    /\ IsSome(single_part_result)

\* C3: a duplicate is a no-op.  Receiving a text that is already in the set
\* leaves the set, the accumulator and the cached single-part payload as they
\* were, does not call the accumulator, and reports the unchanged count.
C3_DuplicateNoOp ==
    [][(op'.name = "receive" /\ Unwrap(op'.arg) \in received_parts) =>
          /\ received_parts' = received_parts
          /\ decoder' = decoder
          /\ single_part_result' = single_part_result
          /\ ~op'.acc_invoked
          /\ ret'.ok
          /\ Unwrap(ret'.progress).parts_received = Cardinality(received_parts)]_vars

\* with two or more texts stored, a receive that did not reach the accumulator
\* was a duplicate
C3_Witness ==
    /\ op.name = "receive"
    /\ ~op.acc_invoked
    /\ Cardinality(received_parts) >= 2
    /\ decoder # Some(NewAccumulator)

\* C4: Complete is terminal until reset.  Once is_complete() holds, every
\* call other than reset() leaves it true and leaves result()'s type, bytes
\* and encoding as they were.
C4_CompleteTerminal ==
    [][(NowComplete /\ op'.name # "reset") =>
          /\ is_complete(decoder', single_part_result')
          /\ NowResult.ok =>
               LET r == result(decoder', received_parts', iter_first', single_part_result')
               IN  /\ r.ok
                   /\ Unwrap(r.payload).ur_type = Unwrap(NowResult.payload).ur_type
                   /\ Unwrap(r.payload).data = Unwrap(NowResult.payload).data
                   /\ Unwrap(r.payload).encoding = Unwrap(NowResult.payload).encoding]_vars

\* C5: reset() returns to Empty.  After reset() every field equals that of a
\* newly constructed decoder (no text remembered, no cached payload, a fresh
\* accumulator) and is_complete() is false.
C5_ResetToEmpty ==
    [][op'.name = "reset" =>
          /\ decoder' = Some(NewAccumulator)
          /\ received_parts' = {}
          /\ iter_first' = None
          /\ single_part_result' = None
          /\ ~is_complete(decoder', single_part_result')]_vars

\* reset() was called on a complete decoder
C5_Witness ==
    /\ op.name = "reset"
    /\ op.was_complete
    /\ received_parts = {}

C7_RejectedFailsOnlyItself ==
    [][(op'.name = "receive" /\ ~ret'.ok) =>
          /\ received_parts' = received_parts
          /\ decoder' = decoder
          /\ single_part_result' = single_part_result]_vars

\* the parts MultiPartEncoder::new generated for the input
GeneratedParts == encode_ur_with_fragments(msg.ur_type, msg.data, msg.max_fragment_len).parts

\* C8: next_part() is cyclic.  The k-th call (k = 0, 1, ...) since
\* construction or the last reset() returns generated part (k mod n), with
\* part_num (k mod n) + 1 and total_parts n.
C8_NextPartCyclic ==
    enc_op.name = "next_part" =>
        LET n == Len(GeneratedParts)
            k == calls - 1
            r == Unwrap(enc_ret.part)
        IN  /\ r.ur_string = GeneratedParts[(k % n) + 1]
            /\ r.part_num = (k % n) + 1
            /\ r.total_parts = n

\* the cursor has wrapped: more calls than parts, with several parts
C8_Witness ==
    /\ enc_op.name = "next_part"
    /\ Len(Parts) >= 2
    /\ calls > Len(Parts)

\* C9: part_at(i) is stateless random access.  It leaves the encoder (and so
\* the part the following next_part() returns) unchanged, returns part i with
\* part_num i + 1 when i < part_count(), and None otherwise.
C9_PartAtStateless ==
    [][enc_op'.name = "part_at" =>
          LET e == Unwrap(encoder)
              i == enc_op'.index
          IN  /\ encoder' = encoder
              /\ EncodeResult(Unwrap(encoder'), Unwrap(encoder').current_index)
                   = EncodeResult(e, e.current_index)
              /\ i < part_count(e) =>
                   /\ IsSome(enc_ret'.part)
                   /\ Unwrap(enc_ret'.part).ur_string = e.parts[i + 1]
                   /\ Unwrap(enc_ret'.part).part_num = i + 1
              /\ i >= part_count(e) => enc_ret'.part = None]_vars

\* part_at(1) answered while the cursor stood at 1
C9_Witness ==
    /\ enc_op.name = "part_at"
    /\ enc_op.index = 1
    /\ enc_op.before = 1
    /\ IsSome(enc_ret.part)

\* C10: the cursor is the encoder's only mutable state.  No operation changes
\* all_parts(), part_count() or is_multipart(), and the next_part() that
\* follows a reset() returns part_num 1.
C10_OnlyCursorMutable ==
    [][IsSome(encoder) =>
          /\ all_parts(Unwrap(encoder')) = all_parts(Unwrap(encoder))
          /\ part_count(Unwrap(encoder')) = part_count(Unwrap(encoder))
          /\ is_multipart(Unwrap(encoder')) = is_multipart(Unwrap(encoder))
          /\ (enc_op.name = "reset" /\ enc_op'.name = "next_part") =>
               Unwrap(enc_ret'.part).part_num = 1]_vars

\* reset() was called after the cursor had moved
C10_Witness ==
    /\ enc_op.name = "reset"
    /\ enc_op.before > 0
    /\ Unwrap(encoder).current_index = 0

\* C11: single-part versus multi-part decision.  A constructed encoder has
\* exactly one part, equal to the single-part text, with is_multipart() false,
\* if and only if that text's length is at most max_fragment_length; when the
\* text is longer, is_multipart() is true and every part is a fountain part.
C11_SingleVsMultiDecision ==
    IsSome(encoder) =>
        LET e == Unwrap(encoder)
            single == encode_ur(msg.ur_type, msg.data)
            fits == TextLen(single) <= msg.max_fragment_len
        IN  /\ fits <=> (part_count(e) = 1 /\ e.parts[1] = single /\ ~is_multipart(e))
            /\ ~fits =>
                 /\ is_multipart(e)
                 /\ \A k \in 1..part_count(e) : UrDecode(e.parts[k]).kind = "MultiPart"


\* ------------------------------------------------------------ C12 .. C20

\* the payload the receiver holds
Held == Unwrap(wire)
\* the receiver has run message_type() on the payload it holds
Decoded == cop = "decode" /\ IsMessage(value)

\* C12: an unrecognized UR type is never an error.  For a type string outside
\* the eleven known names and any bytes, from_ur_type returns
\* Ok(Unknown{ur_type, data}) with exactly the given type string and bytes;
\* the bytes are not parsed.
C12_UnknownTypeNeverError ==
    (Decoded /\ Held.ur_type \notin KnownTypes) =>
        cret = COk([variant |-> "Unknown", ur_type |-> Held.ur_type, data |-> Held.data])

\* a request's CBOR under an unknown type name has been decoded
C12_Witness ==
    /\ Decoded
    /\ tamper.kind = "relabel"
    /\ Held.ur_type = "bogus-type"
    /\ value.variant = "EthSignRequest"
    /\ Held.data = to_vec(value)
    /\ cret.ok

\* C13: dispatcher round trip.  For every message value of the eleven known
\* variants, with the optional fields present or absent, and for every Unknown
\* value, converting it to a payload and decoding that payload with
\* message_type() returns a value equal to it.
C13_DispatcherRoundTrip ==
    (Decoded /\ wire = encoded) => cret = COk(value)

\* C14: the payload encoding is a function of the type name.  The payload
\* that from_ur() returns for the text to_ur() gave has the same type name as
\* the payload the message was serialized to, and the same encoding.
C14_EncodingByTypeName ==
    (cop = "from_ur" /\ cret.ok /\ cret.v.ur_type = Unwrap(encoded).ur_type) =>
        cret.v.encoding = Unwrap(encoded).encoding

\* C15: textual path round trip.  For every derivation path p, the empty one
\* included, from_str(p.to_string()) succeeds and returns p's components.
C15_TextRoundTrip ==
    cop = "from_str" => (cret.ok /\ cret.v.components = value.path.components)

\* C16: binary path round trip.  Decoding the bytes cbor::to_bytes wrote for a
\* path returns a path with the same components (index and hardened flag),
\* source fingerprint and depth.
C16_BinaryPathRoundTrip ==
    (cop = "decode" /\ ~IsMessage(value) /\ tamper = NoTamper) => cret = COk(value.path)

\* what the receiver returns for the sender's bytes as they were written
Untouched == Decode(value, Unwrap(encoded))

\* C17: forward compatibility.  A map that decodes, given one more entry with
\* an unrecognized integer key before a known field (the entry counted in the
\* map length), still decodes, to the same value; this for every CBOR message
\* type and for the derivation path, at the top level and inside a message.
C17_UnknownKeySkipped ==
    (cop = "decode" /\ tamper.kind = "inject" /\ Untouched.ok) => cret = Untouched

\* the type whose map lost an entry, and a decoded value with that entry's
\* field unset
DroppedFrom == IF tamper.nested THEN "crypto-keypath" ELSE WireType(value)
Unset(v) ==
    IF tamper.nested THEN [v EXCEPT ![PathField(TypeName(v))][tamper.field] = None]
    ELSE [v EXCEPT ![tamper.field] = None]

C19_ChainIdRoundTrip ==
    (/\ Decoded
     /\ wire = encoded
     /\ value.variant = "EthSignRequest"
     /\ IsSome(value.chain_id)
     /\ value.derivation_path = PlainPath) =>
        /\ cret.ok
        /\ cret.v.chain_id = value.chain_id
        /\ cret.v.derivation_path = value.derivation_path
        /\ cret.v.address = value.address
        /\ cret.v.origin = value.origin

\* the bytes the sender's encoder returned, the map header in them (after the
\* type's tag when it has one), and the items behind the header
Output == Unwrap(encoded).data
MapHeader == d_map(Output, IF WireTags(WireType(value)) = <<>> THEN 1 ELSE d_tag(Output, 1).pos)
HeaderCount == ToNat(Unwrap(MapHeader.v))
\* the sender has encoded a value of one of the CBOR types
EncodedCbor == cop \in {"into", "encode"} /\ IsCbor(value)

\* C20: encoders declare the exact field count.  For every CBOR type and every
\* combination of optional fields, the length in the map header equals the
\* number of entries written after it, and the output is one well-formed
\* definite-length map: exactly that many key/value pairs, then the end.
C20_DeclaredCountIsWritten ==
    EncodedCbor =>
        /\ MapHeader.ok
        /\ IsSome(MapHeader.v)
        /\ HeaderCount = Len(SenderEntries(value))
        /\ SkipItems(Output, MapHeader.pos, 2 * HeaderCount) = DOk(<<>>, Len(Output) + 1)

\* a Stellar request with all three optional fields has been encoded: six
\* entries
C20_Witness ==
    /\ EncodedCbor
    /\ value.variant = "StellarSignRequest"
    /\ IsSome(value.request_id) /\ IsSome(value.address) /\ IsSome(value.origin)
    /\ HeaderCount = 6

\* the text of the last receive() and what decode_ur makes of it
LastText == Unwrap(op.arg)

\* C21: envelope errors of the single-part decode.  A text that does not
\* start with "ur:" is rejected, and so is a text whose type segment is
\* empty: no payload is ever cached whose type name is the empty string.
C21_EnvelopeErrors ==
    (op.name = "receive" /\ Cardinality(received_parts) = 1) =>
        /\ ~StartsWith(LastText.head, "ur:") =>
             (~decode_ur(LastText).ok /\ single_part_result = None)
        /\ StartsWith(LastText.head, "ur:/") =>
             (~decode_ur(LastText).ok /\ single_part_result = None)
        /\ IsSome(single_part_result) => Unwrap(single_part_result).ur_type # ""

\* the value a peer put under data_type / sign_type, and whether an error
\* text shows it in decimal
Discriminant == tamper.key[1]
Names(err, n) == Find(err, ToStr(n)) # 0

\* C22: discriminant conversions.  StellarSignType::from_u32 succeeds exactly
\* for 1, 2, 3 and EthDataType::try_from exactly for 1..4, each the inverse
\* of the conversion to the integer; a request whose sign_type / data_type
\* carries any other value fails to decode, with an error that names the
\* value.
C22_DiscriminantConversions ==
    tamper.kind = "retype" =>
        /\ StellarSignType_from_u32(U32(Discriminant)).ok <=> Discriminant \in 1..3
        /\ StellarSignType_from_u32(U32(Discriminant)).ok =>
             StellarSignType_to_u32(StellarSignType_from_u32(U32(Discriminant)).v) = Discriminant
        /\ EthDataType_try_from(Discriminant).ok <=> Discriminant \in 1..4
        /\ EthDataType_try_from(Discriminant).ok =>
             EthDataType_into_u8(EthDataType_try_from(Discriminant).v) = Discriminant
        /\ (cop = "decode" /\ value.variant = "StellarSignRequest") =>
             IF Discriminant \in 1..3
               THEN cret.ok => StellarSignType_to_u32(cret.v.sign_type) = Discriminant
             ELSE ~cret.ok /\ Names(cret.err, Discriminant)
        /\ (cop = "decode" /\ value.variant = "EthSignRequest") =>
             IF Discriminant \in 1..4
               THEN cret.ok => EthDataType_into_u8(cret.v.data_type) = Discriminant
             ELSE ~cret.ok /\ Names(cret.err, Discriminant)

\* one part of a multi-part stream: a text in the form
\* "ur:<type>/<seq>-<count>/<body>" whose body is a fountain part
IsFragment(text) ==
    /\ UrDecode(text).ok
    /\ UrDecode(text).kind = "MultiPart"
    /\ PartFromCbor(UrDecode(text).data).ok

\* C23: a fragment is not a whole message.  When the first text a fresh
\* decoder receives is one part of a multi-part stream, no single-part
\* payload is cached, the text is handed to the accumulator, and the decoder
\* is complete only if the accumulator is.
C23_FragmentNotWholeMessage ==
    [][(received_parts = {} /\ op'.name = "receive" /\ IsFragment(Unwrap(op'.arg))) =>
          /\ single_part_result' = None
          /\ op'.acc_invoked
          /\ is_complete(decoder', single_part_result') =>
               AccComplete(Unwrap(decoder'))]_vars

\* C24: the progress report agrees with the decoder.  Every Ok(progress)
\* that receive returns, also for a text received again after a single-part
\* completion, has complete equal to is_complete(), percentage 100 exactly
\* when complete and within 0..100 otherwise, and parts_received equal to
\* the number of distinct texts received.
C24_ProgressAgrees ==
    (op.name = "receive" /\ ret.ok) =>
        /\ Unwrap(ret.progress).complete = NowComplete
        /\ Unwrap(ret.progress).percentage = 100 <=> Unwrap(ret.progress).complete
        /\ Unwrap(ret.progress).percentage \in 0..100
        /\ Unwrap(ret.progress).parts_received = Cardinality(received_parts)

\* the stored texts whose fountain part belongs to the message the
\* accumulator holds: the fragments it accepted
AcceptedFragments ==
    {t \in received_parts :
        /\ IsFragment(t)
        /\ PartFromCbor(UrDecode(t).data).part.sequence_count = Unwrap(decoder).sequence_count
        /\ PartFromCbor(UrDecode(t).data).part.message_length = Unwrap(decoder).message_length
        /\ PartFromCbor(UrDecode(t).data).part.checksum = Unwrap(decoder).checksum}

\* C25: the result is determined by the stream.  The type of a completed
\* multi-part result is the type name of the fragments the accumulator
\* accepted, whichever stored text is inspected and whatever other texts
\* were received; metadata.multipart is true for a multi-part result, and a
\* single-part result has multipart false and no sequence or total_parts.
C25_ResultDeterminedByStream ==
    (op.name = "result" /\ ret.ok) =>
        IF IsSome(single_part_result)
          THEN /\ ~Unwrap(ret.payload).metadata.multipart
               /\ Unwrap(ret.payload).metadata.sequence = None
               /\ Unwrap(ret.payload).metadata.total_parts = None
        ELSE /\ Unwrap(ret.payload).metadata.multipart
             /\ \A t \in AcceptedFragments :
                  Unwrap(ret.payload).ur_type = extract_ur_type(t).ur_type

\* the entry of the sender's map that holds the derivation path, and the
\* bytes of its value (what follows the key)
PathEntry ==
    CHOOSE e \in {SenderEntries(value)[i] : i \in 1..Len(SenderEntries(value))} :
        FieldOfEntry(WireType(value), e) = PathField(WireType(value))
PathValueBytes == SubSeq(PathEntry, d_u64(PathEntry, 1).pos, Len(PathEntry))

\* C26: bit-exact path tagging.  In every message that embeds a derivation
\* path the path value is tag 304 applied once to the path map: its bytes
\* are those of the stand-alone encoding, and both ways the message decoders
\* read a path (the path's own decoder, and a tag check followed by it)
\* accept them.
C26_PathTaggedOnce ==
    (cop = "into" /\ CarriesPath(value)) =>
        /\ PathValueBytes = CryptoKeyPath_encode(PathOf(value))
        /\ CryptoKeyPath_decode(PathValueBytes, 1).ok
        /\ TaggedKeyPath(PathValueBytes, 1, "expected CRYPTO_KEYPATH tag").ok

\* C28: an incomplete decoder can still be completed.  Whatever receive
\* calls came before, failed ones included, while is_complete() is false a
\* self-contained single-part UR not seen before completes the decoder, and
\* result() then returns that UR's type and bytes.
C28_CompletableBySinglePart ==
    [][\A s \in SingleTexts :
         (/\ ~NowComplete
          /\ s.text \notin received_parts
          /\ op'.name = "receive"
          /\ op'.arg = Some(s.text)) =>
            /\ ret'.ok
            /\ is_complete(decoder', single_part_result')
            /\ LET r == result(decoder', received_parts', iter_first', single_part_result')
               IN  /\ r.ok
                   /\ Unwrap(r.payload).ur_type = s.ur_type
                   /\ Unwrap(r.payload).data = s.data]_vars

\* the input sends new() to the fountain encoder with nothing to cut: no
\* bytes, or a fragment length of zero
NoFragmentInput ==
    /\ TextLen(encode_ur(msg.ur_type, msg.data)) > msg.max_fragment_len
    /\ msg.data = <<>> \/ msg.max_fragment_len = 0

\* C29: the cursor stays inside the parts.  A constructed encoder has at
\* least one part and its cursor is below part_count() in every state, so
\* next_part() neither indexes past the end nor divides by zero; an input
\* that would give no fragment makes new() fail.
C29_CursorInBounds ==
    /\ IsSome(encoder) =>
         /\ part_count(Unwrap(encoder)) >= 1
         /\ Unwrap(encoder).current_index >= 0
         /\ Unwrap(encoder).current_index < part_count(Unwrap(encoder))
    /\ NoFragmentInput => encoder = None

\* next_part() has just returned the last of several parts and the cursor
\* is back at the first
C29_Witness ==
    /\ enc_op.name = "next_part"
    /\ Len(Parts) >= 2
    /\ enc_op.before = Len(Parts) - 1
    /\ Unwrap(encoder).current_index = 0

\* the counters a shows are at least those of b, in total and by type
Includes(a, b) ==
    /\ a.total_scans >= b.total_scans
    /\ a.successes >= b.successes
    /\ a.failures >= b.failures
    /\ \A e \in b.per_type :
         \E f \in a.per_type :
            /\ f.ur_type = e.ur_type
            /\ f.successes >= e.successes
            /\ f.failures >= e.failures

\* C27: the endpoint shows what was recorded.  With metrics enabled, the
\* counters of a response include every scan that was recorded in the
\* current window before the request arrived, unless the window was reset
\* while the request was served; for the first request and for every later
\* one.
C27_ResponseShowsRecorded ==
    (response.status = 200 /\ http.pc = "idle" /\ ~http.ticked) =>
        Includes(response.body, http.arrived)

\* the frame the loop looked at last holds a text, and what the UR decoder
\* makes of it
FrameText == Unwrap(scan.frame.text)
HoldsText == scan.frame.kind = "text"
HoldsSinglePart ==
    HoldsText /\ UrDecode(FrameText).ok /\ UrDecode(FrameText).kind = "SinglePart"
HoldsNoUr == ~HoldsText \/ ~UrDecode(FrameText).ok

\* C30: scan_keystone returns only whole messages.  It returns Ok(payload)
\* only for a frame that holds a self-contained single-part UR, with that
\* UR's payload, or once the multi-part decoder is complete, with its result;
\* a frame without a UR or with a text the decoder rejects does not end the
\* loop; a capture error other than "no QR code found" ends it with that
\* error.
C30_OnlyWholeMessages ==
    /\ (scan.status = "returned" /\ scan.outcome.ok) =>
         \/ HoldsSinglePart /\ scan.outcome.payload = Some(decode_ur(FrameText).payload)
         \/ /\ AccComplete(Unwrap(decoder))
            /\ scan.outcome.payload = NowResult.payload
    /\ (scan.frame.kind \in {"binary", "none"} \/ (HoldsText /\ HoldsNoUr)) =>
         scan.status = "running"
    /\ scan.frame.kind = "error" =>
         (scan.status = "returned" /\ scan.outcome = ScanErr("Camera"))

====
